---- MODULE Spec2Model ----
(***************************************************************************)
(* Turn scheduling, termination and the streaming interaction loop of the  *)
(* agent team (backend/app/agents/orchestrator.py and                      *)
(* backend/app/services/chat_service.py).                                  *)
(*                                                                         *)
(* A message is a record [source, type, content].  type is the Python      *)
(* class name the code tests (type(message).__name__, isinstance).         *)
(* content is the set of control substrings that occur in the message's    *)
(* text, so the Python test  "X" in message.content  is  X \in m.content.  *)
(***************************************************************************)
EXTENDS Naturals, Sequences, FiniteSets, TLC

VARIABLES
    pc,                 \* position of the request: idle, running, done, finalized,
                        \* committed, complete, error, cancelled, unavailable, rejected, or the tag
                        \* of another specification (sel, ws, store, rc, sse, patch, term)
    history,            \* the messages of the run, in order (the selector's argument)
    speaker,            \* the role chosen to act next, "none" when the run has stopped
    alt,                \* a second, independent choice of speaker for the same history
    agent_interactions, \* chat_service: the interaction records collected so far
    tool_call_count,    \* chat_service: running count of tool calls of the run
    stream,             \* the events yielded to the consumer, in order
    json_bound,         \* whether the function-local name json has been bound
    checkpoint_calls,   \* log lengths at which save_incremental_state was called
    assistant_message,  \* the assistant message row of the run in the database
    agent_state_saved,  \* whether orchestrator.save_state has written the file
    git,                \* what the auto-commit step did
    cwd,                \* the working directory of the server process
    runs,               \* per request: position (idle, active, or its exit path),
                        \* project, saved directory, state it started from, what its tools saw
    team_state,         \* the state held by the orchestrator singleton's team
    state_file,         \* per project: the .agent_state.json artifact
    store_call,         \* the last call of load_state / save_state and how it ended
    rows,               \* the chat messages of one session, ordered by created_at
    consumer,           \* the stream consumer: connected, disconnected, replied
    mark,               \* what the consumer had when it disconnected
    reply,              \* new_messages of the last reconnect
    sse,                \* the streaming endpoint: clock, last heartbeat, frames sent
    patch,              \* a component file and the last visual edit applied to it
    terminal            \* the last call of the terminal tool and what it returned

runVars == <<pc, history, speaker, alt, agent_interactions>>

pipeVars ==
    <<tool_call_count, stream, json_bound, checkpoint_calls,
      assistant_message, agent_state_saved, git>>

wsVars == <<cwd, runs, team_state, state_file, store_call>>

rcVars == <<rows, consumer, mark, reply, sse, patch, terminal>>

vars == <<runVars, pipeVars, wsVars, rcVars>>

None == "None"

Participants == {"Coder", "Planner"}

\* -------------------------------------------------------------------------
\* Bounds of the exploration
\* -------------------------------------------------------------------------
MaxLen == 2      \* SpecSel: every history up to this length is enumerated
VaryLen == 4     \* Spec: the oracle varies its output while the run is this short
MaxRuns == 2     \* SpecWs: requests handled by the process
MaxRows == 3     \* SpecRc: messages added to the session
MaxRecords == 2  \* SpecRc: interaction records held by one message
MaxSeconds == 20 \* SpecSse: seconds that pass on one open stream
MaxEvents == 2   \* SpecSse: events the run yields on the stream
MaxEdits == 2    \* SpecPatch: visual edits applied to one file in a row
MaxDuration == 31 \* SpecTerm: seconds a command runs when it is left alone

\* api/chat.py:44  (now - last_heartbeat).total_seconds() > 15
KeepAliveSeconds == 15

\* orchestrator.py:53  MaxMessageTermination(50)
MaxMessages == 50

\* -------------------------------------------------------------------------
\* Messages
\* -------------------------------------------------------------------------
SelectorSentinels == {"DELEGATE_TO_PLANNER", "SUBTASK_DONE", "TERMINATE", "[VISUAL EDIT]"}

EventMentions == {{}, {"TERMINATE"}}

TextMessages ==
    [source : {"user", "Planner", "Coder", "system"},
     type : {"TextMessage"},
     content : SUBSET SelectorSentinels]

\* Tool events are emitted by a role; the result message the selector names
\* comes from a source that is "definitely not Coder/Planner".
AgentEvents ==
    [source : Participants,
     type : {"ToolCallRequestEvent", "ToolCallExecutionEvent"},
     content : EventMentions]

FunctionResults ==
    [source : {"user", "read_file"},
     type : {"FunctionExecutionResultMessage"},
     content : EventMentions]

Messages == TextMessages \cup AgentEvents \cup FunctionResults

Msg(src, ty, c) == [source |-> src, type |-> ty, content |-> c]

Contains(text, m) == text \in m.content

\* -------------------------------------------------------------------------
\* orchestrator.py: selector_func
\* -------------------------------------------------------------------------
\* lines 119-120: no messages
\* (variant: the run starts with the Planner)
EmptyStartsWithPlanner == "Planner"

no_messages == "Coder"

\* lines 125-126: the Planner just spoke
\* (variant: the Planner's own content is inspected first)
PlannerKeepsTurnOnDelegate(last_message) ==
    IF Contains("DELEGATE_TO_PLANNER", last_message) THEN "Planner" ELSE "Coder"

planner_spoke(last_message) == "Coder"

\* lines 129-143: the Coder just spoke
\* (variants: TERMINATE tested first; the isinstance(TextMessage) test dropped)
CoderTerminateFirst(last_message) ==
    IF last_message.type = "TextMessage" /\ Contains("TERMINATE", last_message)
        THEN None
    ELSE IF last_message.type = "TextMessage"
           /\ Contains("DELEGATE_TO_PLANNER", last_message) THEN "Planner"
    ELSE IF last_message.type = "TextMessage"
           /\ Contains("SUBTASK_DONE", last_message) THEN "Planner"
    ELSE "Coder"

CoderSignalsInAnyType(last_message) ==
    IF Contains("DELEGATE_TO_PLANNER", last_message) THEN "Planner"
    ELSE IF Contains("SUBTASK_DONE", last_message) THEN "Planner"
    ELSE IF Contains("TERMINATE", last_message) THEN None
    ELSE "Coder"

coder_spoke(last_message) ==
    IF last_message.type = "TextMessage"
           /\ Contains("DELEGATE_TO_PLANNER", last_message) THEN "Planner"
    ELSE IF last_message.type = "TextMessage"
           /\ Contains("SUBTASK_DONE", last_message) THEN "Planner"
    ELSE IF last_message.type = "TextMessage"
           /\ Contains("TERMINATE", last_message) THEN None
    ELSE "Coder"

\* lines 148-150: the last message is a tool execution result
tool_result_seen == "Coder"

\* lines 153-160: the user just spoke
\* (variant: the [VISUAL EDIT] tag is ignored)
UserAlwaysPlanned(last_message) == "Planner"

user_spoke(last_message) ==
    IF Contains("[VISUAL EDIT]", last_message) THEN "Coder" ELSE "Planner"

\* (variant: the roles take turns, whatever the messages are)
SelectTakesTurns(messages) == IF speaker = "Coder" THEN "Planner" ELSE "Coder"

select(messages) ==
    IF messages = <<>> THEN no_messages
    ELSE LET last_message == messages[Len(messages)] IN
        IF last_message.source = "Planner" THEN planner_spoke(last_message)
        ELSE IF last_message.source = "Coder" THEN coder_spoke(last_message)
        ELSE IF last_message.type = "FunctionExecutionResultMessage"
            THEN tool_result_seen
        ELSE IF last_message.source = "user" THEN user_spoke(last_message)
        ELSE None

\* -------------------------------------------------------------------------
\* orchestrator.py:53  TextMentionTermination("TERMINATE") | MaxMessageTermination(50)
\* -------------------------------------------------------------------------
\* The condition holds once the text is mentioned in a message of the run, from
\* any source (no sources argument is given), or once max_messages messages
\* have been exchanged.
\* (variants: only the newest message is inspected; only the Planner's
\* messages are inspected, as the comment on line 52 words it; the limit is
\* exclusive)
TextMentionInLastOnly(text, messages) ==
    messages # <<>> /\ Contains(text, messages[Len(messages)])

TextMentionByPlannerOnly(text, messages) ==
    \E i \in 1..Len(messages) :
        messages[i].source = "Planner" /\ Contains(text, messages[i])

RECURSIVE TextMentionTermination(_, _)
TextMentionTermination(text, messages) ==
    IF messages = <<>> THEN FALSE
    ELSE IF Contains(text, Head(messages)) THEN TRUE
    ELSE TextMentionTermination(text, Tail(messages))

MaxMessageExceeded(max_messages, messages) ==
    Len(messages) > max_messages

MaxMessageTermination(max_messages, messages) ==
    Len(messages) >= max_messages

termination_condition(messages) ==
    TextMentionTermination("TERMINATE", messages)
        \/ MaxMessageTermination(MaxMessages, messages)

\* -------------------------------------------------------------------------
\* orchestrator.py:165-170  SelectorGroupChat(participants, model_client,
\* termination_condition, selector_func): the termination condition is
\* consulted first; the selector's answer is taken when it names a role, and
\* when it answers None the team asks its model client (temperature 0.7) to
\* pick one of the participants.
\* -------------------------------------------------------------------------
\* (variant: a speaker is chosen without consulting the termination condition)
SpeakersWithoutTerminationCheck(messages) ==
    IF select(messages) # None THEN {select(messages)} ELSE Participants

NextSpeakers(messages) ==
    IF termination_condition(messages) THEN {"none"}
    ELSE IF select(messages) # None THEN {select(messages)}
    ELSE Participants

\* -------------------------------------------------------------------------
\* chat_service.py: process_chat_message_stream, classification of one
\* streamed event into interaction records (lines 542-624)
\* -------------------------------------------------------------------------
Record(agent_name, message_type, content) ==
    [agent_name |-> agent_name, message_type |-> message_type, content |-> content]

\* lines 567-572: the arguments of a tool call are a Python str holding JSON,
\* or an already decoded object.  A str is [str |-> text], an object is
\* [obj |-> value].
ValidJson == "{\"path\": \"App.tsx\"}"

MalformedJson == "{\"path\": "

DecodedObject == [path |-> "App.tsx"]

ToolArguments == {[str |-> ValidJson], [str |-> MalformedJson], [obj |-> DecodedObject]}

LateArguments == {[str |-> ValidJson]}

isinstance_str(arguments) == "str" \in DOMAIN arguments

\* json.loads: the decoded value, or a JSONDecodeError
JSONDecodeError == [error |-> "JSONDecodeError"]

json_loads(text) == IF text = ValidJson THEN DecodedObject ELSE JSONDecodeError

\* (variant: a decoding error leaves the initial empty tool_args in place)
ToolArgsEmptyOnError(arguments) ==
    IF isinstance_str(arguments) THEN
        IF json_loads(arguments.str) = JSONDecodeError
            THEN [empty |-> TRUE]
            ELSE json_loads(arguments.str)
    ELSE arguments.obj

tool_args(arguments) ==
    IF isinstance_str(arguments) THEN
        IF json_loads(arguments.str) = JSONDecodeError
            THEN [raw |-> arguments.str]
            ELSE json_loads(arguments.str)
    ELSE arguments.obj

ToolCallRecord(agent_name, arguments) ==
    [agent_name |-> agent_name, message_type |-> "tool_call", content |-> {},
     tool_arguments |-> tool_args(arguments)]

interaction_records(message) ==
    IF message.type = "TextMessage" THEN
        IF message.source # "user" /\ ~Contains("TASK_COMPLETED", message)
            THEN <<Record(message.source, "thought", message.content)>>
            ELSE <<>>
    ELSE IF message.type = "ToolCallRequestEvent" THEN
        <<ToolCallRecord(message.source, message.arguments)>>
    ELSE IF message.type = "ToolCallExecutionEvent" THEN
        <<Record("System", "tool_response", message.content)>>
    ELSE <<>>

\* chat_service.py:595  if tool_call_count % 10 == 0
ReloadEvery == 10

\* chat_service.py:561  if len(agent_interactions) % 3 == 0
CheckpointEvery == 3

Event(type, data) == [type |-> type, data |-> data]

\* (variant: the reload is signalled one tool call late)
ReloadOneLate(count) == count % ReloadEvery = 1

reload_due(count) == count % ReloadEvery = 0

\* lines 556-559, 585-603, 619-622: what one event of the run yields
stream_events(records, count) ==
    IF records = <<>> THEN <<>>
    ELSE <<Event("agent_interaction", records[1])>>
         \o (IF records[1].message_type = "tool_call" /\ reload_due(count)
                THEN <<Event("reload_preview", [tool_call_count |-> count])>>
                ELSE <<>>)

Thoughts(log) == {k \in 1..Len(log) : log[k].message_type = "thought"}

\* lines 560-562 and 623-624: when save_incremental_state is called
\* (variant: the thought trigger counts thought records only)
CheckpointOnThirdThought(message, records, log) ==
    \/ /\ message.type = "TextMessage"
       /\ records # <<>>
       /\ Cardinality(Thoughts(log)) % CheckpointEvery = 0
    \/ message.type = "ToolCallExecutionEvent"

checkpoint_due(message, records, log) ==
    \/ /\ message.type = "TextMessage"
       /\ records # <<>>
       /\ Len(log) % CheckpointEvery = 0
    \/ message.type = "ToolCallExecutionEvent"

\* lines 498-529: save_incremental_state.  json is a local name of the
\* enclosing function, bound by the import statements of lines 569 and 662;
\* until then json.dumps raises NameError, which the handler's except
\* swallows before anything is written.
\* No assistant message of the run exists (assistant_message_id is None).
\* inserted counts the assistant messages the run added to the session;
\* response_content is the text written at the end of the run.
NoMessage ==
    [content |-> "absent", metadata |-> <<>>, inserted |-> 0,
     response_content |-> {}]

\* (variant: the newest record is stored first)
SavesNewestFirst(message, log, bound) ==
    IF ~bound THEN message
    ELSE IF message = NoMessage
        THEN [NoMessage EXCEPT !.content = "Processing...", !.inserted = 1,
                               !.metadata = [i \in 1..Len(log) |-> log[Len(log) + 1 - i]]]
    ELSE [message EXCEPT !.metadata = [i \in 1..Len(log) |-> log[Len(log) + 1 - i]]]

\* (variant: every checkpoint adds a message of its own)
AddsMessageEveryTime(message, log, bound) ==
    IF ~bound THEN message
    ELSE [message EXCEPT !.content = "Processing...", !.metadata = log,
                         !.inserted = message.inserted + 1]

save_incremental_state(message, log, bound) ==
    IF ~bound THEN message
    ELSE IF message = NoMessage
        THEN [message EXCEPT !.content = "Processing...", !.metadata = log,
                             !.inserted = message.inserted + 1]
    ELSE [message EXCEPT !.metadata = log]

\* -------------------------------------------------------------------------
\* The run: orchestrator.main_team.run_stream(task=...) consumed by the
\* async for loop of chat_service.py:532-631
\* -------------------------------------------------------------------------
\* "..." stands for any text of a message that is not a control substring.
Prose == "..."

UserContents == {{}, {"[VISUAL EDIT]"}, {"TERMINATE"}}

RoleContents ==
    {{}, {"DELEGATE_TO_PLANNER"}, {"SUBTASK_DONE"}, {"TERMINATE"},
     {"DELEGATE_TO_PLANNER", "TERMINATE"}, {"TASK_COMPLETED"},
     {Prose, "TASK_COMPLETED"}}

LateContents ==
    LET coder_texts == {i \in DOMAIN history :
                            /\ history[i].source = "Coder"
                            /\ history[i].type = "TextMessage"}
        hands_over == \E i \in coder_texts :
                            /\ Contains("DELEGATE_TO_PLANNER", history[i])
                            /\ \A j \in coder_texts : j <= i
    IN IF speaker = "Coder" /\ hands_over THEN {{"DELEGATE_TO_PLANNER"}}
       ELSE {{}}

tool_result_last ==
    history # <<>> /\ history[Len(history)].type = "ToolCallExecutionEvent"

\* What the oracle may say at this point of the run: anything while the run
\* is short; afterwards a role that speaks says plain text, except that a
\* Coder whose newest text handed the turn to the Planner hands it over
\* again, and a Coder that has just read a tool result calls the next tool,
\* until the message limit ends the run.
OracleContents ==
    IF Len(history) < VaryLen THEN RoleContents
    ELSE IF tool_result_last THEN {}
    ELSE LateContents

OracleArguments == IF Len(history) < VaryLen THEN ToolArguments ELSE LateArguments

OracleMentions == IF Len(history) < VaryLen THEN EventMentions ELSE {{}}

\* The team takes another turn only when a speaker has been chosen
team_continues == pc = "running" /\ speaker \in Participants

NoCallPending == FALSE

tool_call_pending ==
    history # <<>> /\ history[Len(history)].type = "ToolCallRequestEvent"

\* One message of the stream (one pass of the loop body, lines 536-631):
\* appended to the history by the team, classified by the pipeline, yielded,
\* counted and checkpointed; then the team decides who acts next.
Emit(message) ==
    LET records == interaction_records(message)
        log == agent_interactions \o records
        count == IF message.type = "ToolCallRequestEvent"
                    THEN tool_call_count + 1 ELSE tool_call_count
        bound == json_bound \/ message.type = "ToolCallRequestEvent"
        saves == checkpoint_due(message, records, log)
    IN
    /\ history' = Append(history, message)
    /\ agent_interactions' = log
    /\ tool_call_count' = count
    /\ stream' = stream \o stream_events(records, count)
    /\ json_bound' = bound
    /\ checkpoint_calls' =
         IF saves THEN checkpoint_calls \cup {Len(log)} ELSE checkpoint_calls
    /\ assistant_message' =
         IF saves THEN save_incremental_state(assistant_message, log, bound)
         ELSE assistant_message
    /\ agent_state_saved' = (agent_state_saved \/ (saves /\ bound))
    /\ speaker' \in NextSpeakers(history')
    /\ UNCHANGED <<pc, alt, git,
                   wsVars, rcVars>>

\* chat_service.py:365-371, 488-495, 532-535: the request yields the start
\* event and starts the run; the task is the first message of the stream, a
\* text message from "user".
StartRun ==
    /\ pc = "idle"
    /\ \E c \in UserContents :
        LET task == Msg("user", "TextMessage", c) IN
        /\ pc' = "running"
        /\ history' = <<task>>
        /\ agent_interactions' = interaction_records(task)
        /\ stream' = <<Event("start", [session |-> "s"])>>
        /\ speaker' \in NextSpeakers(history')
        /\ UNCHANGED <<alt, tool_call_count, json_bound, checkpoint_calls,
                       assistant_message, agent_state_saved, git,
                   wsVars, rcVars>>

\* what building the orchestrator can raise: the ValueError the request
\* handles itself, or another exception (settings.OPENAI_MODEL is read at
\* orchestrator.py:89 and core/config.py defines no such setting)
ConstructionErrors == {"ValueError", "AttributeError"}

NoEventWhenUnavailable(error) == <<>>

\* chat_service.py:402-408: a ValueError is yielded as one error event and
\* the generator returns; api/chat.py:58-61: any other exception leaves the
\* generator and the endpoint sends it as one error event
unavailable_events(error) == <<Event("error", [message |-> error])>>

\* chat_service.py:365-408: the request stores the user message, yields the
\* start event and fails to get the orchestrator.
OrchestratorUnavailable ==
    /\ pc = "idle"
    /\ \E error \in ConstructionErrors :
        stream' = <<Event("start", [session |-> "s"])>>
                      \o unavailable_events(error)
    /\ pc' = "unavailable"
    /\ UNCHANGED <<history, speaker, alt, agent_interactions, tool_call_count,
                   json_bound, checkpoint_calls, assistant_message,
                   agent_state_saved, git, wsVars, rcVars>>

\* chat_service.py:347-348, 33-45; api/chat.py:58-61: the request names a
\* session that does not exist for the project; get_session raises before
\* the start event, and the endpoint sends the exception as an error event.
SessionNotFound ==
    /\ pc = "idle"
    /\ pc' = "rejected"
    /\ stream' = <<Event("error", [message |-> "Chat session not found"])>>
    /\ UNCHANGED <<history, speaker, alt, agent_interactions, tool_call_count,
                   json_bound, checkpoint_calls, assistant_message,
                   agent_state_saved, git, wsVars, rcVars>>

\* The selected role answers with text.
RoleSpeaks ==
    /\ team_continues
    /\ ~tool_call_pending
    /\ \E c \in OracleContents : Emit(Msg(speaker, "TextMessage", c))

\* The Coder (the only role with tools, orchestrator.py:96-115) requests a
\* tool; one call per request (parallel_tool_calls=False, orchestrator.py:94).
ToolCallRequest ==
    /\ team_continues
    /\ speaker = "Coder"
    /\ ~tool_call_pending
    /\ Len(history) < VaryLen \/ tool_result_last
    /\ \E a \in OracleArguments :
        Emit([source |-> "Coder", type |-> "ToolCallRequestEvent",
              content |-> {}, arguments |-> a])

\* The runtime executes the requested tool and appends its result (the
\* selector's comment, orchestrator.py:139-143); the event carries the name of
\* the role that called the tool.
ToolCallExecution ==
    /\ team_continues
    /\ tool_call_pending
    /\ \E c \in OracleMentions : Emit(Msg("Coder", "ToolCallExecutionEvent", c))

\* (variant: the stream ends only once TERMINATE has been mentioned)
TaskResultOnMentionOnly ==
    /\ pc = "running"
    /\ TextMentionTermination("TERMINATE", history)
    /\ pc' = "done"
    /\ UNCHANGED <<history, speaker, alt, agent_interactions, pipeVars,
                   wsVars, rcVars>>

\* chat_service.py:626-635: the stream ends with the TaskResult, the loop ends.
TaskResult ==
    /\ pc = "running"
    /\ termination_condition(history)
    /\ pc' = "done"
    /\ UNCHANGED <<history, speaker, alt, agent_interactions, pipeVars,
                   wsVars, rcVars>>

\* chat_service.py:744-757: an exception raised during the run ends it with
\* an error event.  Exceptions are explored while the run is short.
RunFails ==
    /\ team_continues
    /\ Len(history) <= VaryLen
    /\ pc' = "error"
    /\ speaker' = "none"
    /\ stream' = Append(stream, Event("error", [message |-> "exception"]))
    /\ UNCHANGED <<history, alt, agent_interactions, tool_call_count, json_bound,
                   checkpoint_calls, assistant_message, agent_state_saved, git,
                   wsVars, rcVars>>

\* chat_service.py:633-635, 744: the consumer closes the stream or the
\* request's task is cancelled while the run is suspended at a yield or an
\* await.  GeneratorExit and CancelledError are no subclasses of Exception, so
\* the handler at 744 does not run and only the finally block does.
\* Cancellation is explored while the run is short.
RunCancelled ==
    /\ team_continues
    /\ Len(history) <= VaryLen
    /\ pc' = "cancelled"
    /\ speaker' = "none"
    /\ UNCHANGED <<history, alt, agent_interactions, pipeVars, wsVars, rcVars>>

\* chat_service.py:637-675: the final response, the content of the last
\* message of the run, is written into the assistant message (created here,
\* after import json, when no checkpoint created it), and the team state is
\* saved.
Finalize ==
    /\ pc = "done"
    /\ pc' = "finalized"
    /\ json_bound' = (json_bound \/ assistant_message = NoMessage)
    /\ assistant_message' =
         [content |-> "final", metadata |-> agent_interactions,
          inserted |-> IF assistant_message = NoMessage
                        THEN assistant_message.inserted + 1
                        ELSE assistant_message.inserted,
          response_content |-> history[Len(history)].content]
    /\ agent_state_saved' = TRUE
    /\ UNCHANGED <<history, speaker, alt, agent_interactions, tool_call_count,
                   stream, checkpoint_calls, git,
                   wsVars, rcVars>>

\* -------------------------------------------------------------------------
\* chat_service.py:677-725: the automatic commit after the run
\* -------------------------------------------------------------------------
ChangedDiff == "diff --git a/src/App.tsx b/src/App.tsx"

\* git_service.py:175-206  get_diff: the output of git diff; "" when there is
\* no repository or git fails
DiffOutputs == {"", "\n", ChangedDiff}

strip(text) == IF text = "\n" THEN "" ELSE text

\* line 684: if diff_output and diff_output.strip()
\* (variant: the commit is attempted whatever the diff)
AlwaysHasChanges(diff_output) == TRUE

has_changes(diff_output) == diff_output # "" /\ strip(diff_output) # ""

\* CommitMessageService.generate_commit_message either returns the title and
\* body of a message or raises.
GenerateOutcomes == {"returned", "raised"}

\* What the git commands of commit_changes meet.  After a non-empty git diff
\* the repository exists and git add . stages something, so the cached diff
\* exits with 1.
ProcessResults == {"ok", "CalledProcessError", "ValueError"}

GitRuns ==
    [repository : {TRUE}, add : ProcessResults, cached : {1}, commit : ProcessResults]

\* git_service.py:58-99  commit_changes(project_id, message, files=None):
\* what it returns (or that it raised) and whether a commit was made
commit_changes(git_run) ==
    IF ~git_run.repository THEN [outcome |-> "False", committed |-> FALSE]
    ELSE IF git_run.add = "CalledProcessError"
        THEN [outcome |-> "False", committed |-> FALSE]
    ELSE IF git_run.add # "ok" THEN [outcome |-> "raised", committed |-> FALSE]
    ELSE IF git_run.cached = 1 THEN
        IF git_run.commit = "ok" THEN [outcome |-> "True", committed |-> TRUE]
        ELSE IF git_run.commit = "CalledProcessError"
            THEN [outcome |-> "False", committed |-> FALSE]
        ELSE [outcome |-> "raised", committed |-> FALSE]
    ELSE [outcome |-> "True", committed |-> FALSE]

NoCommit ==
    [diff |-> "not computed", requests |-> 0, generated |-> "not requested",
     commit_calls |-> 0, outcome |-> "not called", commits |-> 0]

GitCommitEvent(success) == Event("git_commit", [success |-> success])

\* (variant: the event of a commit that was made is followed by the event
\* of the exception handler)
CommitEventTwice(diff_output, generated, git_run) ==
    IF ~has_changes(diff_output) THEN
        [git |-> [NoCommit EXCEPT !.diff = diff_output], events |-> <<>>]
    ELSE IF generated = "raised" THEN
        [git |-> [NoCommit EXCEPT !.diff = diff_output, !.requests = 1,
                                  !.generated = generated],
         events |-> <<GitCommitEvent(FALSE)>>]
    ELSE
        LET commit == commit_changes(git_run) IN
        [git |-> [diff |-> diff_output, requests |-> 1, generated |-> generated,
                  commit_calls |-> 1, outcome |-> commit.outcome,
                  commits |-> IF commit.committed THEN 1 ELSE 0],
         events |-> IF commit.outcome = "raised" THEN <<GitCommitEvent(FALSE)>>
                    ELSE IF commit.outcome = "True"
                        THEN <<GitCommitEvent(TRUE), GitCommitEvent(FALSE)>>
                    ELSE <<>>]

\* lines 678-725: the git record after the step, and the events it yields
auto_commit(diff_output, generated, git_run) ==
    IF ~has_changes(diff_output) THEN
        [git |-> [NoCommit EXCEPT !.diff = diff_output], events |-> <<>>]
    ELSE IF generated = "raised" THEN
        [git |-> [NoCommit EXCEPT !.diff = diff_output, !.requests = 1,
                                  !.generated = generated],
         events |-> <<GitCommitEvent(FALSE)>>]
    ELSE
        LET commit == commit_changes(git_run) IN
        [git |-> [diff |-> diff_output, requests |-> 1, generated |-> generated,
                  commit_calls |-> 1, outcome |-> commit.outcome,
                  commits |-> IF commit.committed THEN 1 ELSE 0],
         events |-> IF commit.outcome = "raised" THEN <<GitCommitEvent(FALSE)>>
                    ELSE IF commit.outcome = "True" THEN <<GitCommitEvent(TRUE)>>
                    ELSE <<>>]

AutoCommit ==
    /\ pc = "finalized"
    /\ pc' = "committed"
    /\ \E diff_output \in DiffOutputs, generated \in GenerateOutcomes,
          git_run \in GitRuns :
        /\ git' = auto_commit(diff_output, generated, git_run).git
        /\ stream' = stream \o auto_commit(diff_output, generated, git_run).events
    /\ UNCHANGED <<history, speaker, alt, agent_interactions, tool_call_count,
                   json_bound, checkpoint_calls, assistant_message,
                   agent_state_saved,
                   wsVars, rcVars>>

\* chat_service.py:727-742: the complete event ends the stream.
Complete ==
    /\ pc = "committed"
    /\ pc' = "complete"
    /\ stream' = Append(stream, Event("complete", [message |-> assistant_message.content]))
    /\ UNCHANGED <<history, speaker, alt, agent_interactions, tool_call_count,
                   json_bound, checkpoint_calls, assistant_message,
                   agent_state_saved, git,
                   wsVars, rcVars>>

\* -------------------------------------------------------------------------
\* State outside the run: the process working directory and the team state
\* shared by all requests, and the messages of a session in the database
\* -------------------------------------------------------------------------
Requests == 1..MaxRuns

\* project ids of the projects the requests are for
Projects == {1, 2}

\* os.getcwd() of the server process before any request changed it
BaseDir == [root |-> "backend", project_id |-> 0]

\* chat_service.py:415  Path(settings.PROJECTS_BASE_DIR) / f"project_{project_id}"
project_dir(project_id) == [root |-> "projects", project_id |-> project_id]

\* the state of a team that has not run yet: no message in its thread
FreshTeam == [message_thread |-> <<>>]

NoRun ==
    [pc |-> "idle", project_id |-> 0, original_cwd |-> BaseDir,
     started_from |-> FreshTeam, workspaces |-> {}]

\* orchestrator.py:214-218: the artifact of a project, absent until saved;
\* text is the file's content, saved the snapshot of the last complete write
NoFile == [exists |-> FALSE, text |-> <<>>, saved |-> FreshTeam]

NoCall ==
    [op |-> "none", project_id |-> 0, fault |-> "none", returned |-> FALSE,
     raised |-> "none", before |-> FreshTeam]

NoMark == [id |-> 0, rows |-> <<>>]

\* api/chat.py:38: the endpoint's generator has set last_heartbeat and waits
\* for the first event
NoStream ==
    [now |-> 0, last_heartbeat |-> 0, events |-> 0, frames |-> <<>>,
     open |-> TRUE]

\* terminal.py:11: the terminal tool was not called yet
NoCommand ==
    [command |-> <<>>,
     process |-> [error |-> "none", seconds |-> 0, returncode |-> 0,
                  stdout |-> <<>>, stderr |-> <<>>],
     result |-> [raised |-> "none", killed |-> FALSE, text |-> <<>>],
     calls |-> 0]

\* project_service.py:206: no visual edit was requested yet
NoPatch ==
    [file |-> <<>>, before |-> <<>>,
     request |-> [element_selector |-> <<>>, style_changes |-> <<>>,
                  has_class_name |-> FALSE, class_name |-> <<>>],
     result |-> [success |-> FALSE, raised |-> "none"],
     calls |-> 0, commits |-> 0]

pipeline_idle ==
    /\ tool_call_count = 0
    /\ stream = <<>>
    /\ json_bound = FALSE
    /\ checkpoint_calls = {}
    /\ assistant_message = NoMessage
    /\ agent_state_saved = FALSE
    /\ git = NoCommit

workspace_idle ==
    /\ cwd = BaseDir
    /\ runs = [r \in Requests |-> NoRun]
    /\ team_state = FreshTeam
    /\ state_file = [p \in Projects |-> NoFile]
    /\ store_call = NoCall

session_idle ==
    /\ rows = <<>>
    /\ consumer = "connected"
    /\ mark = NoMark
    /\ reply = <<>>
    /\ sse = NoStream
    /\ patch = NoPatch
    /\ terminal = NoCommand

Init ==
    /\ pc = "idle"
    /\ history = <<>>
    /\ speaker = "none"
    /\ alt = "none"
    /\ agent_interactions = <<>>
    /\ pipeline_idle
    /\ workspace_idle
    /\ session_idle

Next ==
    \/ StartRun
    \/ RoleSpeaks
    \/ ToolCallRequest
    \/ ToolCallExecution
    \/ TaskResult
    \/ OrchestratorUnavailable
    \/ SessionNotFound
    \/ RunFails
    \/ RunCancelled
    \/ Finalize
    \/ AutoCommit
    \/ Complete

Spec == Init /\ [][Next]_vars

\* The run under the proviso that every invocation returns: a role or tool
\* that has been asked to act delivers its message, and a stream that has
\* met its termination condition delivers the TaskResult.  An invocation may
\* also raise (RunFails) and the consumer may leave (RunCancelled); nothing
\* is assumed about either, about what the messages say or about the steps
\* after the loop.
Returns == RoleSpeaks \/ ToolCallRequest \/ ToolCallExecution \/ TaskResult

FairSpec == Spec /\ WF_vars(Returns)

\* -------------------------------------------------------------------------
\* The selector and the termination condition as functions of an arbitrary
\* history: every history of at most MaxLen messages, and every history made
\* of plain messages up to the message limit followed by one more message.
\* -------------------------------------------------------------------------
Plain == Msg("Coder", "TextMessage", {})

AllPlain(messages) == \A i \in 1..Len(messages) : messages[i] = Plain

Decide(messages) ==
    /\ history' = messages
    /\ speaker' \in NextSpeakers(messages)
    /\ alt' \in NextSpeakers(messages)
    /\ UNCHANGED <<pc, agent_interactions, pipeVars,
                   wsVars, rcVars>>

Extend ==
    /\ pc = "sel"
    /\ Len(history) < MaxLen \/ (AllPlain(history) /\ Len(history) <= MaxMessages)
    /\ \E m \in Messages : Decide(Append(history, m))

InitSel ==
    /\ pc = "sel"
    /\ history = <<>>
    /\ speaker \in NextSpeakers(<<>>)
    /\ alt \in NextSpeakers(<<>>)
    /\ agent_interactions = <<>>
    /\ pipeline_idle
    /\ workspace_idle
    /\ session_idle

NextSel == Extend

SpecSel == InitSel /\ [][NextSel]_vars

\* -------------------------------------------------------------------------
\* Requests sharing the process: the working directory scoped by each run
\* (chat_service.py:410-420, 633-635; the same in the non-streaming path,
\* 149-160, 252-255) and the team of the orchestrator singleton
\* (orchestrator.py:235-244).  A run is suspended at every await, so the
\* steps of different requests interleave.
\* -------------------------------------------------------------------------
\* app.agents.tools.common.get_workspace, called by every tool
\* (terminal.py:18): the directory the tools work in is the process working
\* directory, which the run sets "so agent tools work correctly".
get_workspace == cwd

\* The team's state after it worked for a project: the project's messages
\* are in its thread.
with_messages_of(state, project_id) ==
    IF \E i \in DOMAIN state.message_thread : state.message_thread[i] = project_id
        THEN state
        ELSE [message_thread |-> Append(state.message_thread, project_id)]

RECURSIVE dump_items(_)
\* json.dump of a list: the items separated by commas
dump_items(items) ==
    IF items = <<>> THEN <<>>
    ELSE IF Len(items) = 1 THEN <<ToString(items[1])>>
    ELSE <<ToString(items[1]), ",">> \o dump_items(Tail(items))

DumpWithoutLastItem(state) ==
    <<"{", "\"message_thread\"", ":", "[">>
        \o dump_items(IF state.message_thread = <<>> THEN <<>>
                      ELSE SubSeq(state.message_thread, 1,
                                  Len(state.message_thread) - 1))
        \o <<"]", "}">>

\* orchestrator.py:194  json.dump(team_state, f, indent=2, ensure_ascii=False):
\* the text written, as its sequence of JSON tokens
json_dump(state) ==
    <<"{", "\"message_thread\"", ":", "[">>
        \o dump_items(state.message_thread) \o <<"]", "}">>

\* orchestrator.py:220  json.load(f): the object the text denotes, or the
\* exception for a text that is not a JSON document; between [ and ] the
\* tokens are numbers separated by commas
json_load(text) ==
    LET is_number(token) == \E n \in 0..9 : ToString(n) = token
        number(token) == CHOOSE n \in 0..9 : ToString(n) = token
        items == SubSeq(text, 5, Len(text) - 2)
        well_formed_items ==
            \/ items = <<>>
            \/ /\ Len(items) % 2 = 1
               /\ \A i \in DOMAIN items :
                    IF i % 2 = 1 THEN is_number(items[i]) ELSE items[i] = ","
    IN
    IF /\ Len(text) >= 6
       /\ SubSeq(text, 1, 4) = <<"{", "\"message_thread\"", ":", "[">>
       /\ SubSeq(text, Len(text) - 1, Len(text)) = <<"]", "}">>
       /\ well_formed_items
        THEN [message_thread |->
                [i \in 1..((Len(text) - 5) \div 2) |-> number(text[3 + 2 * i])]]
        ELSE JSONDecodeError

\* Python exceptions that are not subclasses of Exception
BaseExceptionsOnly == {"CancelledError", "KeyboardInterrupt", "GeneratorExit"}

OnlyDecodeErrorsCaught(error) == error = "JSONDecodeError"

\* orchestrator.py:198, 230  except Exception as e
except_Exception(error) == error \notin BaseExceptionsOnly

\* what can fail in load_state: nothing, or opening the file for reading
LoadFaults == {"none", "OSError"}

\* what can fail in save_state: nothing, creating the directory or opening the
\* file (OSError before anything is written), or the dump after the file was
\* opened for writing, with nothing or all but the closing brace written
SaveFaults(state) ==
    {[error |-> "none", written |-> Len(json_dump(state))],
     [error |-> "OSError", written |-> 0]}
        \cup {[error |-> "TypeError", written |-> k] :
                k \in {0, Len(json_dump(state)) - 1}}

NoFault == [error |-> "none", written |-> 0]

\* orchestrator.py:212-228: the body of load_state's try block
load_state_try(project_id, fault) ==
    IF ~state_file[project_id].exists
        THEN [returned |-> FALSE, raised |-> "none", team_state |-> team_state]
    ELSE IF fault # "none"
        THEN [returned |-> FALSE, raised |-> fault, team_state |-> team_state]
    ELSE IF json_load(state_file[project_id].text) = JSONDecodeError
        THEN [returned |-> FALSE, raised |-> "JSONDecodeError",
              team_state |-> team_state]
    ELSE [returned |-> TRUE, raised |-> "none",
          team_state |-> json_load(state_file[project_id].text)]

\* orchestrator.py:202-232  load_state: what the call returns, what it raises
\* and the team state after it; the team keeps the state it has when the
\* project has no artifact or the artifact cannot be read
load_state(project_id, fault) ==
    LET result == load_state_try(project_id, fault) IN
    IF result.raised # "none" /\ except_Exception(result.raised)
        THEN [result EXCEPT !.raised = "none"]
        ELSE result

\* orchestrator.py:183-196: the body of save_state's try block: the file is
\* truncated when opened for writing and holds what was written before a
\* failure
save_state_try(project_id, state, fault) ==
    IF fault.error = "OSError"
        THEN [raised |-> "OSError", state_file |-> state_file]
    ELSE IF fault.error = "none"
        THEN [raised |-> "none",
              state_file |-> [state_file EXCEPT ![project_id] =
                    [exists |-> TRUE, text |-> json_dump(state),
                     saved |-> state]]]
    ELSE [raised |-> fault.error,
          state_file |-> [state_file EXCEPT ![project_id] =
                [exists |-> TRUE,
                 text |-> SubSeq(json_dump(state), 1, fault.written),
                 saved |-> @.saved]]]

\* orchestrator.py:176-200  save_state: the team state is written into the
\* project's artifact; a failure is logged and not raised
save_state(project_id, state, fault) ==
    LET result == save_state_try(project_id, state, fault) IN
    IF result.raised # "none" /\ except_Exception(result.raised)
        THEN [result EXCEPT !.raised = "none"]
        ELSE result

ExitPaths == {"normal", "exception", "cancelled"}

\* chat_service.py:415-419, 484: the run saves the current directory, enters
\* its project directory and loads the project's team state.
EnterRun(r) ==
    /\ pc = "ws"
    /\ runs[r].pc = "idle"
    /\ \E project_id \in Projects :
        /\ cwd' = project_dir(project_id)
        /\ team_state' = load_state(project_id, "none").team_state
        /\ runs' = [runs EXCEPT ![r] =
                       [pc |-> "active", project_id |-> project_id,
                        original_cwd |-> cwd,
                        started_from |-> load_state(project_id, "none").team_state,
                        workspaces |-> {}]]
    /\ UNCHANGED <<state_file, store_call, runVars, pipeVars, rcVars>>

\* chat_service.py:564-624: the Coder calls a tool; the tool works in
\* get_workspace(); the team's state now holds messages of this project; the
\* checkpoint after the tool result saves the team state for the project.
ToolInvocation(r) ==
    /\ pc = "ws"
    /\ runs[r].pc = "active"
    /\ LET state == with_messages_of(team_state, runs[r].project_id) IN
        /\ team_state' = state
        /\ state_file' =
             save_state(runs[r].project_id, state, NoFault).state_file
    /\ runs' = [runs EXCEPT ![r].workspaces = @ \cup {get_workspace}]
    /\ UNCHANGED <<cwd, store_call, runVars, pipeVars, rcVars>>

\* chat_service.py:633-635 (finally) and 675: on every exit path the saved
\* directory is restored; after a normal end the team state is saved.
ExitRun(r) ==
    /\ pc = "ws"
    /\ runs[r].pc = "active"
    /\ \E path \in ExitPaths :
        /\ cwd' = runs[r].original_cwd
        /\ runs' = [runs EXCEPT ![r].pc = path]
        /\ state_file' =
             IF path = "normal"
                THEN save_state(runs[r].project_id, team_state,
                                NoFault).state_file
                ELSE state_file
    /\ UNCHANGED <<team_state, store_call, runVars, pipeVars, rcVars>>

InitWs ==
    /\ pc = "ws"
    /\ history = <<>>
    /\ speaker = "none"
    /\ alt = "none"
    /\ agent_interactions = <<>>
    /\ pipeline_idle
    /\ workspace_idle
    /\ session_idle

NextWs ==
    \E r \in Requests :
        \/ EnterRun(r)
        \/ ToolInvocation(r)
        \/ ExitRun(r)

SpecWs == InitWs /\ [][NextWs]_vars

\* -------------------------------------------------------------------------
\* The state store by itself: saves and loads of the team state for a
\* project key (orchestrator.py:176-232), with the failures the file system
\* and the serialisation can produce.
\* -------------------------------------------------------------------------
\* chat_service.py:526, 675  await orchestrator.save_state(project_id)
StoreSave ==
    /\ pc = "store"
    /\ \E project_id \in Projects, fault \in SaveFaults(team_state) :
        LET result == save_state(project_id, team_state, fault) IN
        /\ state_file' = result.state_file
        /\ store_call' =
             [op |-> "save", project_id |-> project_id, fault |-> fault.error,
              returned |-> FALSE, raised |-> result.raised,
              before |-> team_state]
    /\ UNCHANGED <<cwd, runs, team_state, runVars, pipeVars, rcVars>>

\* chat_service.py:484  state_loaded = await orchestrator.load_state(project_id)
StoreLoad ==
    /\ pc = "store"
    /\ \E project_id \in Projects, fault \in LoadFaults :
        LET result == load_state(project_id, fault) IN
        /\ team_state' = result.team_state
        /\ store_call' =
             [op |-> "load", project_id |-> project_id, fault |-> fault,
              returned |-> result.returned, raised |-> result.raised,
              before |-> team_state]
    /\ UNCHANGED <<cwd, runs, state_file, runVars, pipeVars, rcVars>>

\* chat_service.py:538  run_stream: the team works for a project and its
\* thread takes the project's messages
TeamWorks ==
    /\ pc = "store"
    /\ \E project_id \in Projects :
        /\ team_state' = with_messages_of(team_state, project_id)
        /\ team_state' # team_state
    /\ store_call' = NoCall
    /\ UNCHANGED <<cwd, runs, state_file, runVars, pipeVars, rcVars>>

\* orchestrator.py:235-244: a new server process builds the singleton again,
\* with a team that has not run; the artifacts stay on disk
ProcessRestart ==
    /\ pc = "store"
    /\ team_state # FreshTeam
    /\ team_state' = FreshTeam
    /\ store_call' = NoCall
    /\ UNCHANGED <<cwd, runs, state_file, runVars, pipeVars, rcVars>>

InitStore ==
    /\ pc = "store"
    /\ history = <<>>
    /\ speaker = "none"
    /\ alt = "none"
    /\ agent_interactions = <<>>
    /\ pipeline_idle
    /\ workspace_idle
    /\ session_idle

NextStore == StoreSave \/ StoreLoad \/ TeamWorks \/ ProcessRestart

SpecStore == InitStore /\ [][NextStore]_vars

\* -------------------------------------------------------------------------
\* The messages of one session and a consumer that reconnects
\* (api/chat.py:130-162, chat_service.py:57-73, 498-523, 648-672)
\* -------------------------------------------------------------------------
\* api/chat.py:148  ChatService.get_messages(db, session_id, limit=1000)
ReconnectLimit == 1000

\* A row of chat_messages; records is the number of interaction records in
\* its message_metadata.  Ids are assigned in insertion order, which is also
\* the order of created_at.
Row(id, role, content, records) ==
    [id |-> id, role |-> role, content |-> content, records |-> records]

\* The messages a session holds when the consumer first connects
PriorRows(n) == [i \in 1..n |-> Row(i, "user", "text", 0)]

SessionSizes == {0, ReconnectLimit - 1}

\* Rows added since the consumer first connected
added ==
    IF Len(rows) >= ReconnectLimit - 1
        THEN Len(rows) - (ReconnectLimit - 1)
        ELSE Len(rows)

\* chat_service.py:67-73  order_by(created_at).limit(limit)
get_messages(limit) ==
    SubSeq(rows, 1, IF Len(rows) < limit THEN Len(rows) ELSE limit)

after(since_message_id, msg) == msg.id > since_message_id

\* api/chat.py:148-151
new_messages(since_message_id) ==
    SelectSeq(get_messages(ReconnectLimit), LAMBDA msg : after(since_message_id, msg))

\* The assistant message of the run in progress (assistant_message_id)
in_progress == {i \in 1..Len(rows) : rows[i].content = "Processing..."}

awaiting_response ==
    rows # <<>> /\ rows[Len(rows)].role = "user" /\ added < MaxRows

\* chat_service.py:57-64: the user's message of a new request is stored.
add_message ==
    /\ pc = "rc"
    /\ in_progress = {}
    /\ added < MaxRows
    /\ rows' = Append(rows, Row(Len(rows) + 1, "user", "text", 0))
    /\ UNCHANGED <<consumer, mark, reply, sse, patch, terminal, runVars, pipeVars, wsVars>>

\* chat_service.py:498-523: a checkpoint creates the assistant message with
\* the records collected so far, or rewrites the metadata of the message it
\* created before.
SaveIncremental ==
    /\ pc = "rc"
    /\ \/ /\ in_progress = {}
          /\ awaiting_response
          /\ \E n \in 1..MaxRecords :
              rows' = Append(rows, Row(Len(rows) + 1, "assistant", "Processing...", n))
       \/ \E i \in in_progress :
          /\ rows[i].records < MaxRecords
          /\ rows' = [rows EXCEPT ![i].records = @ + 1]
    /\ UNCHANGED <<consumer, mark, reply, sse, patch, terminal, runVars, pipeVars, wsVars>>

\* chat_service.py:648-672: the final response replaces the content of the
\* assistant message, or is stored as a new message when no checkpoint
\* created one.
FinalMessage ==
    /\ pc = "rc"
    /\ \/ /\ in_progress = {}
          /\ awaiting_response
          /\ \E n \in 0..MaxRecords :
              rows' = Append(rows, Row(Len(rows) + 1, "assistant", "final", n))
       \/ \E i \in in_progress :
          rows' = [rows EXCEPT ![i].content = "final"]
    /\ UNCHANGED <<consumer, mark, reply, sse, patch, terminal, runVars, pipeVars, wsVars>>

\* The consumer loses the stream; it has everything stored so far and knows
\* the id of the last message.
Disconnect ==
    /\ pc = "rc"
    /\ consumer \in {"connected", "replied"}
    /\ consumer' = "disconnected"
    /\ mark' = [id |-> Len(rows), rows |-> rows]
    /\ UNCHANGED <<rows, reply, sse, patch, terminal, runVars, pipeVars, wsVars>>

\* api/chat.py:130-162  reconnect_to_session(since_message_id)
Reconnect ==
    /\ pc = "rc"
    /\ consumer = "disconnected"
    /\ consumer' = "replied"
    /\ reply' = new_messages(mark.id)
    /\ UNCHANGED <<rows, mark, sse, patch, terminal, runVars, pipeVars, wsVars>>

InitRc ==
    /\ pc = "rc"
    /\ history = <<>>
    /\ speaker = "none"
    /\ alt = "none"
    /\ agent_interactions = <<>>
    /\ pipeline_idle
    /\ workspace_idle
    /\ \E n \in SessionSizes : rows = PriorRows(n)
    /\ consumer = "connected"
    /\ mark = NoMark
    /\ reply = <<>>
    /\ sse = NoStream
    /\ patch = NoPatch
    /\ terminal = NoCommand

NextRc ==
    \/ add_message
    \/ SaveIncremental
    \/ FinalMessage
    \/ Disconnect
    \/ Reconnect

SpecRc == InitRc /\ [][NextRc]_vars

\* -------------------------------------------------------------------------
\* The streaming endpoint (api/chat.py:34-61): event_generator turns the
\* events of the run into frames.  Time is counted in whole seconds.
\* -------------------------------------------------------------------------
\* api/chat.py:41: the generator is suspended in  async for  while the run
\* produces no event
SecondPasses ==
    /\ pc = "sse"
    /\ sse.open
    /\ sse.now < MaxSeconds
    /\ sse' = [sse EXCEPT !.now = @ + 1]
    /\ UNCHANGED <<rows, consumer, mark, reply, patch, terminal, runVars, pipeVars, wsVars>>

\* api/chat.py:41-56: the body of the loop for one event of the run: a
\* keep-alive comment first when more than 15 seconds passed since the last
\* heartbeat, then the data frame; the heartbeat is set to the current time
EventArrives ==
    /\ pc = "sse"
    /\ sse.open
    /\ sse.events < MaxEvents
    /\ sse' = [sse EXCEPT
                 !.events = @ + 1,
                 !.frames =
                    (IF sse.now - sse.last_heartbeat > KeepAliveSeconds
                        THEN Append(@, ": keep-alive")
                        ELSE @) \o <<"data">>,
                 !.last_heartbeat = sse.now]
    /\ UNCHANGED <<rows, consumer, mark, reply, patch, terminal, runVars, pipeVars, wsVars>>

\* api/chat.py:41: the run's generator is exhausted and the loop ends
StreamEnds ==
    /\ pc = "sse"
    /\ sse.open
    /\ sse' = [sse EXCEPT !.open = FALSE]
    /\ UNCHANGED <<rows, consumer, mark, reply, patch, terminal, runVars, pipeVars, wsVars>>

InitSse ==
    /\ pc = "sse"
    /\ history = <<>>
    /\ speaker = "none"
    /\ alt = "none"
    /\ agent_interactions = <<>>
    /\ pipeline_idle
    /\ workspace_idle
    /\ session_idle

NextSse == SecondPasses \/ EventArrives \/ StreamEnds

SpecSse == InitSse /\ [][NextSse]_vars

\* \w
WordChars ==
    {"a", "b", "c", "d", "e", "f", "g", "h", "i", "j", "k", "l", "m",
     "n", "o", "p", "q", "r", "s", "t", "u", "v", "w", "x", "y", "z",
     "A", "B", "C", "D", "E", "F", "G", "H", "I", "J", "K", "L", "M",
     "N", "O", "P", "Q", "R", "S", "T", "U", "V", "W", "X", "Y", "Z",
     "0", "1", "2", "3", "4", "5", "6", "7", "8", "9", "_"}

\* \s
Whitespace == {" ", "\n", "\t"}

\* text[i:].startswith(literal)
starts_with(text, i, literal) ==
    /\ i >= 1
    /\ i + Len(literal) - 1 <= Len(text)
    /\ SubSeq(text, i, i + Len(literal) - 1) = literal

\* the first index from i on of a character in chars, 0 when there is none
index_of(text, i, chars) ==
    IF \E j \in i..Len(text) : text[j] \in chars
        THEN CHOOSE j \in i..Len(text) :
                /\ text[j] \in chars
                /\ \A k \in i..(j - 1) : text[k] \notin chars
        ELSE 0

\* the index of the last character of the longest run of chars that starts
\* at i; i - 1 when the run is empty
span_end(text, i, chars) ==
    IF \E j \in i..Len(text) : text[j] \notin chars
        THEN (CHOOSE j \in i..Len(text) :
                /\ text[j] \notin chars
                /\ \A k \in i..(j - 1) : text[k] \in chars) - 1
        ELSE Len(text)

NoMatch == [start |-> 0, end |-> 0, group |-> <<>>]

\* re.match of one of the source's patterns at index i of text:
\*   class_filter  className=  then  "([^"]*)"  or the same between {U+0060
\*                 and U+0060}  or between {' and '}                 (336)
\*   id            id=(?:"{id_filter}"|{{\'{id_filter}\'}})            (344)
\*   style         style=\{\{([^}]*)\}\}                               (367)
\*   pair          (\w+):\s*'([^']*)'                                  (377)
\*   classname     className=(?:"([^"]*)"|\'([^\']*)\'|\{([^}]*)\})    (486)
\* group is the text of the group that took part in the match.
re_match(regex, text, i) ==
    LET delimited(q, opening, closing) ==
            LET c == index_of(text, q + Len(opening), {closing[1]}) IN
            IF starts_with(text, q, opening) /\ c > 0
                                             /\ starts_with(text, c, closing)
                THEN [start |-> i, end |-> c + Len(closing) - 1,
                      group |-> SubSeq(text, q + Len(opening), c - 1)]
                ELSE NoMatch
        first(alternatives) ==
            IF \E k \in DOMAIN alternatives : alternatives[k].start # 0
                THEN alternatives[CHOOSE k \in DOMAIN alternatives :
                        /\ alternatives[k].start # 0
                        /\ \A j \in 1..(k - 1) : alternatives[j].start = 0]
                ELSE NoMatch
        className == <<"c", "l", "a", "s", "s", "N", "a", "m", "e", "=">>
        style == <<"s", "t", "y", "l", "e", "=">>
        backtick == "U+0060"    \* the grave accent character, written by its code point
    IN
    CASE regex.name = "class_filter" ->
            IF starts_with(text, i, className)
                THEN first(<<delimited(i + Len(className), <<"\"">>, <<"\"">>),
                             delimited(i + Len(className), <<"{", backtick>>, <<backtick, "}">>),
                             delimited(i + Len(className), <<"{", "'">>, <<"'", "}">>)>>)
                ELSE NoMatch
      [] regex.name = "classname" ->
            IF starts_with(text, i, className)
                THEN first(<<delimited(i + Len(className), <<"\"">>, <<"\"">>),
                             delimited(i + Len(className), <<"'">>, <<"'">>),
                             delimited(i + Len(className), <<"{">>, <<"}">>)>>)
                ELSE NoMatch
      [] regex.name = "style" ->
            IF starts_with(text, i, style)
                THEN delimited(i + Len(style), <<"{", "{">>, <<"}", "}">>)
                ELSE NoMatch
      [] regex.name = "id" ->
            LET quoted == <<"i", "d", "=", "\"">> \o regex.id \o <<"\"">>
                braced == <<"i", "d", "=", "{", "'">> \o regex.id \o <<"'", "}">>
            IN  IF starts_with(text, i, quoted)
                    THEN [start |-> i, end |-> i + Len(quoted) - 1, group |-> <<>>]
                ELSE IF starts_with(text, i, braced)
                    THEN [start |-> i, end |-> i + Len(braced) - 1, group |-> <<>>]
                ELSE NoMatch
      [] regex.name = "pair" ->
            LET k == span_end(text, i, WordChars)
                q == span_end(text, k + 2, Whitespace) + 1
                c == index_of(text, q + 1, {"'"})
            IN  IF /\ k >= i
                   /\ starts_with(text, k + 1, <<":">>)
                   /\ starts_with(text, q, <<"'">>)
                   /\ c > 0
                    THEN [start |-> i, end |-> c,
                          group |-> [prop |-> SubSeq(text, i, k),
                                     val |-> SubSeq(text, q + 1, c - 1)]]
                    ELSE NoMatch

\* re.search(regex, text): the leftmost match
re_search(regex, text) ==
    LET leftmost(starts) ==
            IF starts = {} THEN NoMatch
            ELSE re_match(regex, text,
                          CHOOSE i \in starts : \A j \in starts : i <= j)
    IN leftmost({i \in 1..Len(text) : re_match(regex, text, i).start # 0})

RECURSIVE re_sub(_, _, _)
\* re.sub(regex, repl, text): every match, left to right, replaced by repl
re_sub(regex, repl, text) ==
    LET replaced(m) ==
            IF m.start = 0 THEN text
            ELSE SubSeq(text, 1, m.start - 1) \o repl
                    \o re_sub(regex, repl, SubSeq(text, m.end + 1, Len(text)))
    IN replaced(re_search(regex, text))

RECURSIVE re_findall(_, _)
\* re.findall(regex, text): the groups of the matches, left to right
re_findall(regex, text) ==
    LET found(m) ==
            IF m.start = 0 THEN <<>>
            ELSE <<m.group>>
                    \o re_findall(regex, SubSeq(text, m.end + 1, Len(text)))
    IN found(re_search(regex, text))

KebabCaseKept(prop) == prop

\* project_service.py:298-301  to_camel_case: split at "-", the first part
\* as it is, the other parts capitalized (first letter upper, rest lower)
to_camel_case(prop) ==
    LET ascii_lowercase ==
            <<"a", "b", "c", "d", "e", "f", "g", "h", "i", "j", "k", "l", "m", "n",
              "o", "p", "q", "r", "s", "t", "u", "v", "w", "x", "y",
              "z">>
        ascii_uppercase ==
            <<"A", "B", "C", "D", "E", "F", "G", "H", "I", "J", "K", "L", "M", "N",
              "O", "P", "Q", "R", "S", "T", "U", "V", "W", "X", "Y",
              "Z">>
        letter(c, from, to) ==
            IF \E n \in DOMAIN from : from[n] = c
                THEN to[CHOOSE n \in DOMAIN from : from[n] = c]
                ELSE c
        cased == [i \in DOMAIN prop |->
                    IF \A j \in 1..(i - 1) : prop[j] # "-" THEN prop[i]
                    ELSE IF prop[i - 1] = "-"
                        THEN letter(prop[i], ascii_lowercase, ascii_uppercase)
                        ELSE letter(prop[i], ascii_uppercase, ascii_lowercase)]
    IN SelectSeq(cased, LAMBDA c : c # "-")

RECURSIVE dict_update(_, _)
\* dict.update with the items of pairs in order: the value of a key already
\* present is replaced in place, a new key is appended
dict_update(styles, pairs) ==
    IF pairs = <<>> THEN styles
    ELSE LET item == pairs[1]
             set == IF \E n \in DOMAIN styles : styles[n].prop = item.prop
                        THEN [n \in DOMAIN styles |->
                                IF styles[n].prop = item.prop THEN item
                                                              ELSE styles[n]]
                        ELSE Append(styles, item)
         IN dict_update(set, Tail(pairs))

RECURSIVE style_string(_)
\* project_service.py:385, 393  ", ".join([f"{k}: '{v}'" for k, v in ...])
style_string(styles) ==
    IF styles = <<>> THEN <<>>
    ELSE styles[1].prop \o <<":", " ", "'">> \o styles[1].val \o <<"'">>
            \o (IF Len(styles) = 1 THEN <<>>
                ELSE <<",", " ">> \o style_string(Tail(styles)))

\* str.split(): the words between runs of whitespace
split(text) ==
    {SubSeq(text, i, j) : <<i, j>> \in
        {p \in (DOMAIN text) \X (DOMAIN text) :
            /\ p[1] <= p[2]
            /\ \A k \in p[1]..p[2] : text[k] \notin Whitespace
            /\ p[1] = 1 \/ text[p[1] - 1] \in Whitespace
            /\ p[2] = Len(text) \/ text[p[2] + 1] \in Whitespace}}

\* project_service.py:305-313  the selector's tag name and its class or id
\* filter; an empty text stands for None (only truth is tested)
parse_selector(element_selector) ==
    LET dot == index_of(element_selector, 1, {"."})
        hash == index_of(element_selector, 1, {"#"})
        rest(n) == SubSeq(element_selector, n + 1, Len(element_selector))
    IN  IF dot > 0
            THEN [tag_name |-> SubSeq(element_selector, 1, dot - 1),
                  class_filter |-> rest(dot), id_filter |-> <<>>]
        ELSE IF hash > 0
            THEN [tag_name |-> SubSeq(element_selector, 1, hash - 1),
                  class_filter |-> <<>>, id_filter |-> rest(hash)]
        ELSE [tag_name |-> element_selector, class_filter |-> <<>>,
              id_filter |-> <<>>]

NoTarget == [found |-> FALSE, raised |-> "none", tag_start |-> 0, tag_full_end |-> 0]

RECURSIVE target_match(_, _, _, _)
\* project_service.py:316-362 (and 434-480): the first occurrence of
\* "<" + tag_name, from the index from on, whose text up to the first ">"
\* passes the filter.  class_value is None when the matched group is empty,
\* and None.split() raises AttributeError.
target_match(content, selector, original_class_name, from) ==
    LET tag == <<"<">> \o selector.tag_name
        \* 334-359: the filter on one candidate; next is the rest of the loop
        filter(tag_start, tag_full_end, class_match, id_match, next) ==
            LET this == [found |-> TRUE, raised |-> "none",
                         tag_start |-> tag_start, tag_full_end |-> tag_full_end]
            IN
            IF tag_full_end = 0 THEN next
            ELSE IF selector.class_filter # <<>>
                THEN IF class_match.start = 0 THEN next
                     ELSE IF class_match.group = <<>>
                        THEN [NoTarget EXCEPT !.raised = "AttributeError"]
                     ELSE IF selector.class_filter \in split(class_match.group)
                        THEN this
                     ELSE next
            ELSE IF selector.id_filter # <<>>
                THEN IF id_match.start # 0 THEN this ELSE next
            ELSE IF original_class_name # <<>>
                THEN IF class_match.start = 0 THEN next
                     ELSE IF class_match.group = original_class_name THEN this
                     ELSE next
            ELSE this
        \* 326-332: the candidate's text runs to the first ">" after its start
        tagged(tag_start, tag_full_end, tag_content) ==
            filter(tag_start, tag_full_end,
                   re_search([name |-> "class_filter"], tag_content),
                   re_search([name |-> "id", id |-> selector.id_filter],
                             tag_content),
                   target_match(content, selector, original_class_name,
                                tag_start + 1))
        ended(tag_start, tag_full_end) ==
            tagged(tag_start, tag_full_end,
                   SubSeq(content, tag_start, tag_full_end))
        \* 319-324: the occurrences of the tag pattern, left to right
        candidate(starts) ==
            IF starts = {} THEN NoTarget
            ELSE LET tag_start == CHOOSE i \in starts : \A j \in starts : i <= j
                 IN ended(tag_start, index_of(content, tag_start, {">"}))
    IN candidate({i \in from..Len(content) : starts_with(content, i, tag)})

\* project_service.py:281-404  _apply_styles_to_jsx: the new content, or the
\* exception raised
apply_styles_to_jsx(content, element_selector, style_changes, original_class_name) ==
    LET attr(styles) ==
            <<"s", "t", "y", "l", "e", "=", "{", "{">> \o style_string(styles)
                \o <<"}", "}">>
        \* 367-399: the tag with its style attribute merged or inserted
        new_tag_content(tag_content, react_styles, insert_pos, existing_style_match) ==
            IF existing_style_match.start # 0
                THEN re_sub([name |-> "style"],
                            attr(dict_update(
                                    dict_update(<<>>,
                                        re_findall([name |-> "pair"],
                                                   existing_style_match.group)),
                                    react_styles)),
                            tag_content)
                ELSE SubSeq(tag_content, 1, insert_pos)
                        \o <<" ">> \o attr(react_styles)
                        \o SubSeq(tag_content, insert_pos + 1, Len(tag_content))
        styled(tag_content, react_styles, insert_pos) ==
            new_tag_content(tag_content, react_styles, insert_pos,
                            re_search([name |-> "style"], tag_content))
        \* 361-362, 401-404
        result(selector, target) ==
            IF target.raised # "none"
                THEN [content |-> content, raised |-> target.raised]
            ELSE IF ~target.found THEN [content |-> content, raised |-> "none"]
            ELSE [content |->
                    SubSeq(content, 1, target.tag_start - 1)
                        \o styled(SubSeq(content, target.tag_start,
                                         target.tag_full_end),
                                  dict_update(<<>>,
                                    [n \in DOMAIN style_changes |->
                                        [prop |-> to_camel_case(style_changes[n].prop),
                                         val |-> style_changes[n].val]]),
                                  Len(<<"<">> \o selector.tag_name))
                        \o SubSeq(content, target.tag_full_end + 1, Len(content)),
                  raised |-> "none"]
        selected(selector) ==
            result(selector, target_match(content, selector, original_class_name, 1))
    IN selected(parse_selector(element_selector))

ClassNameReplacedEverywhere(content, element_selector, class_name, original_class_name) ==
    [content |-> re_sub([name |-> "classname"],
                        <<"c", "l", "a", "s", "s", "N", "a", "m", "e", "=", "\"">>
                            \o class_name \o <<"\"">>,
                        content),
     raised |-> "none"]

\* project_service.py:407-507  _apply_classname_to_jsx: the new content, or
\* the exception raised
apply_classname_to_jsx(content, element_selector, class_name, original_class_name) ==
    LET new_classname_attr ==
            <<"c", "l", "a", "s", "s", "N", "a", "m", "e", "=", "\"">>
                \o class_name \o <<"\"">>
        insert_pos == Len(<<"<">> \o element_selector)
        \* 486-502: the tag with its className replaced or inserted
        new_tag_content(tag_content, existing_classname_match) ==
            IF existing_classname_match.start # 0
                THEN re_sub([name |-> "classname"], new_classname_attr, tag_content)
                ELSE SubSeq(tag_content, 1, insert_pos)
                        \o <<" ">> \o new_classname_attr
                        \o SubSeq(tag_content, insert_pos + 1, Len(tag_content))
        classed(tag_content) ==
            new_tag_content(tag_content,
                            re_search([name |-> "classname"], tag_content))
        \* 479-480, 504-507
        result(target) ==
            IF target.raised # "none"
                THEN [content |-> content, raised |-> target.raised]
            ELSE IF ~target.found THEN [content |-> content, raised |-> "none"]
            ELSE [content |->
                    SubSeq(content, 1, target.tag_start - 1)
                        \o classed(SubSeq(content, target.tag_start,
                                          target.tag_full_end))
                        \o SubSeq(content, target.tag_full_end + 1, Len(content)),
                  raised |-> "none"]
    IN result(target_match(content, parse_selector(element_selector),
                           original_class_name, 1))

\* the component files the edits are applied to
Sources ==
    {\* <div className="card dark">
     <<"<", "d", "i", "v", " ", "c", "l", "a", "s", "s", "N", "a", "m", "e",
       "=", "\"", "c", "a", "r", "d", " ", "d", "a", "r", "k", "\"",
       ">">>,
     \* <div id="main"><div className="card" style={{color: 'blue'}}>
     <<"<", "d", "i", "v", " ", "i", "d", "=", "\"", "m", "a", "i", "n",
       "\"", ">", "<", "d", "i", "v", " ", "c", "l", "a", "s", "s",
       "N", "a", "m", "e", "=", "\"", "c", "a", "r", "d", "\"", " ",
       "s", "t", "y", "l", "e", "=", "{", "{", "c", "o", "l", "o", "r",
       ":", " ", "'", "b", "l", "u", "e", "'", "}", "}", ">">>,
     \* <span>x</span>
     <<"<", "s", "p", "a", "n", ">", "x", "<", "/", "s", "p", "a", "n", ">">>,
     \* <div onClick={() => go()} className="card">
     <<"<", "d", "i", "v", " ", "o", "n", "C", "l", "i", "c", "k", "=", "{",
       "(", ")", " ", "=", ">", " ", "g", "o", "(", ")", "}", " ", "c",
       "l", "a", "s", "s", "N", "a", "m", "e", "=", "\"", "c", "a",
       "r", "d", "\"", ">">>,
     \* <divider/><div className={'card'}>
     <<"<", "d", "i", "v", "i", "d", "e", "r", "/", ">", "<", "d", "i", "v",
       " ", "c", "l", "a", "s", "s", "N", "a", "m", "e", "=", "{", "'",
       "c", "a", "r", "d", "'", "}", ">">>,
     \* <div style={{margin: 0}}>
     <<"<", "d", "i", "v", " ", "s", "t", "y", "l", "e", "=", "{", "{", "m",
       "a", "r", "g", "i", "n", ":", " ", "0", "}", "}", ">">>,
     \* <div className=""><div className="card">
     <<"<", "d", "i", "v", " ", "c", "l", "a", "s", "s", "N", "a", "m", "e",
       "=", "\"", "\"", ">", "<", "d", "i", "v", " ", "c", "l", "a",
       "s", "s", "N", "a", "m", "e", "=", "\"", "c", "a", "r", "d",
       "\"", ">">>}

\* element_selector: div, div.card, div#main
Selectors ==
    {<<"d", "i", "v">>,
     <<"d", "i", "v", ".", "c", "a", "r", "d">>,
     <<"d", "i", "v", "#", "m", "a", "i", "n">>}

\* style_changes and class_name of a request; without class_name the
\* argument is None.  The style changes are {"background-color": "#111"},
\* {"color": "red", "background-color": "#111"} and {"content": ">"}.
Edits ==
    LET BackgroundColor ==
            <<[prop |-> <<"b", "a", "c", "k", "g", "r", "o", "u", "n", "d", "-", "c", "o", "l",
                          "o", "r">>,
               val |-> <<"#", "1", "1", "1">>]>>
        Color == <<[prop |-> <<"c", "o", "l", "o", "r">>, val |-> <<"r", "e", "d">>]>>
        Content == <<[prop |-> <<"c", "o", "n", "t", "e", "n", "t">>, val |-> <<">">>]>>
    IN
    {[style_changes |-> s, has_class_name |-> FALSE, class_name |-> <<>>] :
        s \in {BackgroundColor, Color \o BackgroundColor, Content}}
    \cup {[style_changes |-> s, has_class_name |-> TRUE,
           class_name |-> <<"p", "-", "4">>] : s \in {<<>>, BackgroundColor}}

\* project_service.py:206-278  apply_visual_edits: the file is read, the
\* style changes and then the class name are applied, and the file is
\* written and committed when the text changed.
apply_visual_edits ==
    /\ pc = "patch"
    /\ patch.calls < MaxEdits
    /\ \E element_selector \in Selectors, edit \in Edits :
        LET content == patch.file
            \* 258-278
            returned(modified) ==
                LET success == modified.raised = "none" /\ modified.content # content
                IN patch' =
                    [file |-> IF success THEN modified.content ELSE content,
                     before |-> content,
                     request |-> [element_selector |-> element_selector,
                                  style_changes |-> edit.style_changes,
                                  has_class_name |-> edit.has_class_name,
                                  class_name |-> edit.class_name],
                     result |-> [success |-> success, raised |-> modified.raised],
                     calls |-> patch.calls + 1,
                     commits |-> patch.commits + (IF success THEN 1 ELSE 0)]
            \* 252-256
            classed(styled) ==
                returned(IF styled.raised = "none" /\ edit.has_class_name
                            THEN apply_classname_to_jsx(styled.content,
                                    element_selector, edit.class_name, <<>>)
                            ELSE styled)
        \* 244-250
        IN classed(IF edit.style_changes # <<>>
                    THEN apply_styles_to_jsx(content, element_selector,
                                             edit.style_changes, <<>>)
                    ELSE [content |-> content, raised |-> "none"])
    /\ UNCHANGED <<rows, consumer, mark, reply, sse, terminal, runVars, pipeVars, wsVars>>

InitPatch ==
    /\ pc = "patch"
    /\ history = <<>>
    /\ speaker = "none"
    /\ alt = "none"
    /\ agent_interactions = <<>>
    /\ pipeline_idle
    /\ workspace_idle
    /\ rows = <<>>
    /\ consumer = "connected"
    /\ mark = NoMark
    /\ reply = <<>>
    /\ sse = NoStream
    /\ \E source \in Sources :
        patch = [NoPatch EXCEPT !.file = source, !.before = source]
    /\ terminal = NoCommand

NextPatch == apply_visual_edits

SpecPatch == InitPatch /\ [][NextPatch]_vars

\* -------------------------------------------------------------------------
\* tools/terminal.py: run_terminal_cmd
\* -------------------------------------------------------------------------

\* str.lower() on ASCII text
lower(text) ==
    LET ascii_uppercase ==
            <<"A", "B", "C", "D", "E", "F", "G", "H", "I", "J", "K", "L", "M", "N",
              "O", "P", "Q", "R", "S", "T", "U", "V", "W", "X", "Y",
              "Z">>
        ascii_lowercase ==
            <<"a", "b", "c", "d", "e", "f", "g", "h", "i", "j", "k", "l", "m", "n",
              "o", "p", "q", "r", "s", "t", "u", "v", "w", "x", "y",
              "z">>
    IN [i \in DOMAIN text |->
            IF \E n \in DOMAIN ascii_uppercase : ascii_uppercase[n] = text[i]
                THEN ascii_lowercase[CHOOSE n \in DOMAIN ascii_uppercase :
                                        ascii_uppercase[n] = text[i]]
                ELSE text[i]]

\* literal in text
contains(text, literal) ==
    \E i \in 1..(Len(text) + 1) : starts_with(text, i, literal)

\* terminal.py:22-38
forbidden_patterns ==
    {<<"n", "p", "m", " ", "r", "u", "n", " ", "d", "e", "v">>,
     <<"n", "p", "m", " ", "s", "t", "a", "r", "t">>,
     <<"n", "p", "m", " ", "r", "u", "n", " ", "b", "u", "i", "l", "d">>,
     <<"y", "a", "r", "n", " ", "d", "e", "v">>,
     <<"y", "a", "r", "n", " ", "s", "t", "a", "r", "t">>,
     <<"y", "a", "r", "n", " ", "b", "u", "i", "l", "d">>,
     <<"p", "n", "p", "m", " ", "d", "e", "v">>,
     <<"p", "n", "p", "m", " ", "s", "t", "a", "r", "t">>,
     <<"p", "n", "p", "m", " ", "b", "u", "i", "l", "d">>,
     <<"v", "i", "t", "e">>,
     <<"v", "i", "t", "e", " ", "d", "e", "v">>,
     <<"v", "i", "t", "e", " ", "b", "u", "i", "l", "d">>,
     <<"r", "e", "a", "c", "t", "-", "s", "c", "r", "i", "p", "t", "s", " ",
       "s", "t", "a", "r", "t">>,
     <<"n", "e", "x", "t", " ", "d", "e", "v">>,
     <<"n", "e", "x", "t", " ", "s", "t", "a", "r", "t">>}

\* terminal.py:96
long_running_commands ==
    {<<"t", "s", "c">>,
     <<"n", "p", "x", " ", "t", "s", "c">>,
     <<"n", "p", "m", " ", "a", "u", "d", "i", "t">>,
     <<"n", "p", "m", " ", "o", "u", "t", "d", "a", "t", "e", "d">>}

DefaultTimeoutOnly(command) == 15

\* terminal.py:97-100  15 seconds for normal commands, 30 for the commands
\* whose lower-case text contains an entry of long_running_commands
timeout_seconds(command) ==
    IF \E cmd \in long_running_commands : contains(lower(command), cmd)
        THEN 30 ELSE 15

\* terminal.py:76  '&' in command and not command.strip().endswith('&&')
background(command) ==
    LET stripped(end) ==
            ~(end >= 2 /\ command[end] = "&" /\ command[end - 1] = "&")
    IN  /\ contains(command, <<"&">>)
        /\ stripped(CHOOSE end \in 0..Len(command) :
                        /\ end = 0 \/ command[end] \notin Whitespace
                        /\ \A k \in (end + 1)..Len(command) :
                                command[k] \in Whitespace)

\* the commands the tool is called with
Commands ==
    {<<"l", "s">>,
     <<"n", "p", "m", " ", "t", "e", "s", "t">>,
     <<"N", "P", "X", " ", "T", "S", "C", " ", "-", "-", "n", "o", "E", "m",
       "i", "t">>,
     <<"n", "p", "m", " ", "a", "u", "d", "i", "t">>,
     <<"c", "a", "t", " ", "t", "s", "c", "o", "n", "f", "i", "g", ".", "j",
       "s", "o", "n">>,
     <<"n", "p", "m", " ", "r", "u", "n", " ", "d", "e", "v">>,
     <<"s", "l", "e", "e", "p", " ", "6", "0", " ", "&">>}

\* what the child process does when it is left alone: the seconds it runs,
\* its exit code and whether it writes to stdout and stderr; or the
\* exception of a process that cannot be started (workspace directory gone)
Processes ==
    [error : {"none"}, seconds : 1..MaxDuration, returncode : {0, 1},
     stdout : {<<>>, <<"out">>}, stderr : {<<>>, <<"err">>}]
    \cup [error : {"FileNotFoundError"}, seconds : {0}, returncode : {0},
          stdout : {<<>>}, stderr : {<<>>}]

\* terminal.py:103-105  subprocess.run(..., timeout=timeout): the completed
\* process, or TimeoutExpired after the child was killed, or the exception
\* of Popen
subprocess_run(process, timeout) ==
    IF process.error # "none"
        THEN [raised |-> process.error, killed |-> FALSE, returncode |-> 0,
              stdout |-> <<>>, stderr |-> <<>>]
    ELSE IF process.seconds > timeout
        THEN [raised |-> "TimeoutExpired", killed |-> TRUE, returncode |-> 0,
              stdout |-> <<>>, stderr |-> <<>>]
    ELSE [raised |-> "none", killed |-> FALSE,
          returncode |-> process.returncode,
          stdout |-> process.stdout, stderr |-> process.stderr]

\* terminal.py:11-139  run_terminal_cmd: the text returned, as its heading
\* and its fields in order
run_terminal_cmd(command, process) ==
    LET returned(result) ==
            IF result.raised = "TimeoutExpired"
                THEN [raised |-> "none", killed |-> result.killed,
                      text |-> <<"COMMAND TIMEOUT", "Command", command,
                                 "seconds", timeout_seconds(command)>>]
            ELSE IF result.raised # "none"
                THEN [raised |-> "none", killed |-> result.killed,
                      text |-> <<"Error executing command", result.raised>>]
            ELSE [raised |-> "none", killed |-> result.killed,
                  text |-> <<"Command", command, "Exit code", result.returncode>>
                            \o (IF result.stdout # <<>>
                                    THEN <<"STDOUT", result.stdout>> ELSE <<>>)
                            \o (IF result.stderr # <<>>
                                    THEN <<"STDERR", result.stderr>> ELSE <<>>)]
    IN
    IF \E forbidden \in forbidden_patterns : contains(lower(command), forbidden)
        THEN [raised |-> "none", killed |-> FALSE,
              text |-> <<"COMMAND BLOCKED", "Command", command>>]
    ELSE IF background(command)
        THEN [raised |-> "none", killed |-> FALSE,
              text |-> <<"BACKGROUND COMMAND BLOCKED", "Command", command>>]
    ELSE returned(subprocess_run(process, timeout_seconds(command)))

\* a tool call of the run reaches the terminal tool; the tool keeps nothing
\* from one call to the next, so one call is followed
ToolCall ==
    /\ pc = "term"
    /\ terminal.calls = 0
    /\ \E command \in Commands, process \in Processes :
        terminal' = [command |-> command, process |-> process,
                     result |-> run_terminal_cmd(command, process),
                     calls |-> terminal.calls + 1]
    /\ UNCHANGED <<rows, consumer, mark, reply, sse, patch, runVars, pipeVars, wsVars>>

InitTerm ==
    /\ pc = "term"
    /\ history = <<>>
    /\ speaker = "none"
    /\ alt = "none"
    /\ agent_interactions = <<>>
    /\ pipeline_idle
    /\ workspace_idle
    /\ session_idle

NextTerm == ToolCall

SpecTerm == InitTerm /\ [][NextTerm]_vars

\* -------------------------------------------------------------------------
\* Properties
\* -------------------------------------------------------------------------
last == history[Len(history)]

Sentinels == {"DELEGATE_TO_PLANNER", "SUBTASK_DONE", "TERMINATE"}

MentionsTerminate(messages) ==
    \E i \in 1..Len(messages) : "TERMINATE" \in messages[i].content

IsRoleText(m, role) == m.source = role /\ m.type = "TextMessage"

\* C1: on an empty history the selector returns the Executor ("Coder"), and
\* that role is the one chosen to act.
C1_EmptyHistorySelectsCoder ==
    history = <<>> => (select(history) = "Coder" /\ speaker = "Coder")

C1_Witness == pc = "sel" /\ history = <<>> /\ speaker = "Coder"

\* C2: when the last message is Coder text containing DELEGATE_TO_PLANNER or
\* SUBTASK_DONE the selector returns Planner, also when the same text
\* contains TERMINATE.
C2_DelegationSelectsPlanner ==
    (history # <<>> /\ IsRoleText(last, "Coder")
        /\ (Contains("DELEGATE_TO_PLANNER", last) \/ Contains("SUBTASK_DONE", last)))
    => select(history) = "Planner"

C2_Witness ==
    /\ history # <<>> /\ IsRoleText(last, "Coder")
    /\ Contains("SUBTASK_DONE", last) /\ Contains("TERMINATE", last)
    /\ ~Contains("DELEGATE_TO_PLANNER", last)
    /\ select(history) = "Planner"

\* C3: when the last message is Coder text containing TERMINATE and neither
\* DELEGATE_TO_PLANNER nor SUBTASK_DONE, the selector returns None, the
\* termination condition is true for that history, no role is chosen, and no
\* message or interaction record is appended after it.
CoderSaidTerminate ==
    /\ history # <<>> /\ IsRoleText(last, "Coder")
    /\ Contains("TERMINATE", last)
    /\ ~Contains("DELEGATE_TO_PLANNER", last) /\ ~Contains("SUBTASK_DONE", last)

C3_TerminateStopsTheRun ==
    /\ [](CoderSaidTerminate =>
            (select(history) = None /\ termination_condition(history)
                /\ speaker = "none"))
    /\ [][CoderSaidTerminate =>
            (history' = history /\ agent_interactions' = agent_interactions)]_vars

C3_Witness == CoderSaidTerminate /\ pc = "done" /\ Len(history) > 2

\* C4 as stated: whenever the last message has source "user" the selector
\* returns Coder if the content carries [VISUAL EDIT] and Planner otherwise.
C4_UserMessageRouting ==
    (history # <<>> /\ last.source = "user")
    => select(history) =
         (IF Contains("[VISUAL EDIT]", last) THEN "Coder" ELSE "Planner")

\* C4 amended: when the last message is a text message with source "user"
\* the selector returns Coder if the content carries [VISUAL EDIT] and
\* Planner otherwise.
C4_UserTextRouting ==
    (history # <<>> /\ IsRoleText(last, "user"))
    => select(history) =
         (IF Contains("[VISUAL EDIT]", last) THEN "Coder" ELSE "Planner")

C4_Witness ==
    /\ Len(history) = 2
    /\ IsRoleText(history[1], "user") /\ Contains("[VISUAL EDIT]", history[1])
    /\ select(<<history[1]>>) = "Coder"
    /\ IsRoleText(last, "user") /\ ~Contains("[VISUAL EDIT]", last)
    /\ select(history) = "Planner"

\* C5: the Coder keeps the turn when the last message is from the Coder and
\* is not text containing a sentinel (a tool-call request included), and when
\* the last message is a tool execution result from a source that is not a
\* role.
C5_CoderKeepsTheTurn ==
    history # <<>> =>
        /\ (last.source = "Coder"
              /\ ~(last.type = "TextMessage" /\ last.content \cap Sentinels # {}))
           => select(history) = "Coder"
        /\ (last.type = "FunctionExecutionResultMessage"
              /\ last.source \notin Participants)
           => select(history) = "Coder"

C5_Witness ==
    /\ Len(history) = 2
    /\ history[1].type = "FunctionExecutionResultMessage"
    /\ history[1].source = "read_file"
    /\ select(<<history[1]>>) = "Coder"
    /\ last.source = "Coder" /\ last.type = "ToolCallRequestEvent"
    /\ Contains("TERMINATE", last)
    /\ select(history) = "Coder"

\* C6: when the last message is from the Planner the selector returns Coder
\* whatever the content, and the Planner is not chosen for the next turn.
C6_PlannerHandsOver ==
    (history # <<>> /\ last.source = "Planner")
    => (select(history) = "Coder" /\ speaker # "Planner")

C6_Witness ==
    /\ pc = "running" /\ history # <<>> /\ IsRoleText(last, "Planner")
    /\ Contains("DELEGATE_TO_PLANNER", last)
    /\ speaker = "Coder"

\* C7: whenever the selector returns None because no rule matches while the
\* termination condition is false, a speaker is chosen and the choice is
\* determined by the history (two choices for the same history agree).
NoRuleMatches(messages) ==
    /\ messages # <<>>
    /\ messages[Len(messages)].source \notin {"Planner", "Coder", "user"}
    /\ messages[Len(messages)].type # "FunctionExecutionResultMessage"

C9_Monotonic ==
    [][termination_condition(history) => termination_condition(history')]_vars

C9_Witness ==
    /\ Len(history) >= 2
    /\ termination_condition(SubSeq(history, 1, Len(history) - 1))
    /\ ~Contains("TERMINATE", last)
    /\ Len(history) < MaxMessages
    /\ termination_condition(history)

IsRecord(k, message_type) == agent_interactions[k].message_type = message_type

ThoughtsUpTo(k) == Cardinality({j \in 1..k : IsRecord(j, "thought")})

\* C11 as stated: save_incremental_state is called after every tool_response
\* record and after every third thought record, the thoughts being counted
\* over thought records only.
C11_CheckpointEveryThirdThought ==
    \A k \in 1..Len(agent_interactions) :
        (IsRecord(k, "tool_response")
            \/ (IsRecord(k, "thought") /\ ThoughtsUpTo(k) % 3 = 0))
        => k \in checkpoint_calls

\* C11 amended: save_incremental_state is called after every tool_response
\* record, and after a thought record exactly when the number of interaction
\* records of all kinds collected so far is a multiple of 3; it is called at
\* no other point of the run.
C11_CheckpointEveryThirdRecord ==
    /\ checkpoint_calls \subseteq 1..Len(agent_interactions)
    /\ \A k \in 1..Len(agent_interactions) :
        k \in checkpoint_calls
            <=> (IsRecord(k, "tool_response")
                   \/ (IsRecord(k, "thought") /\ k % 3 = 0))

C11_Witness ==
    /\ pc = "running"
    /\ \E k \in 1..Len(agent_interactions) :
        IsRecord(k, "tool_response") /\ k \in checkpoint_calls
    /\ \E k \in 1..Len(agent_interactions) :
        IsRecord(k, "thought") /\ ThoughtsUpTo(k) = 3 /\ k \notin checkpoint_calls
    /\ \E k \in 1..Len(agent_interactions) :
        IsRecord(k, "thought") /\ ThoughtsUpTo(k) # 3 /\ k \in checkpoint_calls

\* The message a step appends to the history
appended == history'[Len(history')]

AppendsOf(type) ==
    /\ Len(history') = Len(history) + 1
    /\ appended.type = type

ControlSentinels == Sentinels \cup {"TASK_COMPLETED"}

SolelySentinel(content) == \E s \in ControlSentinels : content = {s}

\* C15: each text event from a role yields exactly one thought record unless
\* its content consists solely of a control sentinel, in which case it yields
\* none; text from the user never yields a record.
C15_ThoughtUnlessSolelySentinel ==
    [][AppendsOf("TextMessage") =>
        IF appended.source # "user" /\ ~SolelySentinel(appended.content)
        THEN agent_interactions' =
                Append(agent_interactions,
                       Record(appended.source, "thought", appended.content))
        ELSE agent_interactions' = agent_interactions]_vars

\* C16: every tool call request yields exactly one tool_call record; when its
\* arguments are not valid JSON the record stores {raw: the original string},
\* nothing is raised and the run goes on.
C16_OneToolCallRecord ==
    [][AppendsOf("ToolCallRequestEvent") =>
        /\ Len(agent_interactions') = Len(agent_interactions) + 1
        /\ SubSeq(agent_interactions', 1, Len(agent_interactions)) = agent_interactions
        /\ LET record == agent_interactions'[Len(agent_interactions')] IN
            /\ record.message_type = "tool_call"
            /\ record.agent_name = appended.source
            /\ record.tool_arguments =
                 (IF appended.arguments = [str |-> MalformedJson]
                    THEN [raw |-> MalformedJson] ELSE [path |-> "App.tsx"])
        /\ pc' = "running"]_vars

C16_Witness ==
    /\ pc = "running"
    /\ \E k \in 1..Len(agent_interactions) - 1 :
        /\ IsRecord(k, "tool_call")
        /\ agent_interactions[k].tool_arguments = [raw |-> MalformedJson]
        /\ IsRecord(k + 1, "tool_response")

IsToolCallEvent(i) ==
    stream[i].type = "agent_interaction" /\ stream[i].data.message_type = "tool_call"

ToolCallsUpTo(i) == Cardinality({j \in 1..i : IsToolCallEvent(j)})

Reloads == {i \in 1..Len(stream) : stream[i].type = "reload_preview"}

\* C17: a reload_preview signal is emitted exactly when the running tool_call
\* count reaches a multiple of 10, immediately after that tool_call's
\* agent_interaction event; the number of signals is the tool_call count
\* divided by 10, rounded down; no signal is appended to the interaction log.
C17_ReloadEveryTenthToolCall ==
    /\ tool_call_count = Cardinality({k \in 1..Len(agent_interactions) : IsRecord(k, "tool_call")})
    /\ tool_call_count = ToolCallsUpTo(Len(stream))
    /\ Cardinality(Reloads) = tool_call_count \div 10
    /\ \A i \in Reloads :
        /\ i > 1 /\ IsToolCallEvent(i - 1)
        /\ ToolCallsUpTo(i) % 10 = 0
        /\ stream[i].data.tool_call_count = ToolCallsUpTo(i)
    /\ \A i \in 1..Len(stream) :
        (IsToolCallEvent(i) /\ ToolCallsUpTo(i) % 10 = 0)
            => (i < Len(stream) /\ i + 1 \in Reloads)
    /\ \A k \in 1..Len(agent_interactions) :
        agent_interactions[k].message_type \in {"thought", "tool_call", "tool_response"}

C17_Witness ==
    /\ tool_call_count = 20
    /\ Cardinality(Reloads) = 2
    /\ stream[Len(stream)].type = "reload_preview"

after_commit_step == pc \in {"committed", "complete"}

Yielded(event) == \E i \in 1..Len(stream) : stream[i] = event

\* C19: after a run that terminated normally the diff is computed; when it is
\* non-empty the commit message is requested once and the commit of all
\* changes is attempted once (and made once when git succeeds); when it is
\* empty neither happens; before that point, and after a run that ended with
\* an error, neither happens.
C19_CommitOnlyOnChanges ==
    /\ after_commit_step =>
        /\ git.diff \in DiffOutputs
        /\ git.diff = ChangedDiff =>
            /\ git.requests = 1
            /\ git.commit_calls = (IF git.generated = "returned" THEN 1 ELSE 0)
            /\ git.commits = (IF git.outcome = "True" THEN 1 ELSE 0)
        /\ git.diff # ChangedDiff =>
            (git.requests = 0 /\ git.commit_calls = 0 /\ git.commits = 0)
    /\ ~after_commit_step =>
        /\ git.diff = "not computed"
        /\ git.requests = 0 /\ git.commit_calls = 0 /\ git.commits = 0
        /\ \A i \in 1..Len(stream) : stream[i].type # "git_commit"

C19_Witness ==
    /\ pc = "complete"
    /\ git.requests = 1 /\ git.commit_calls = 1 /\ git.commits = 1
    /\ Yielded(GitCommitEvent(TRUE))
    /\ Len(agent_interactions) > 0

\* C20: any failure in commit-message generation or in the commit (raised, or
\* reported by commit_changes returning False) produces a git_commit event
\* with success false, and the complete event is still emitted.
C20_FailureYieldsGitCommitFalse ==
    /\ (after_commit_step
          /\ (git.generated = "raised" \/ git.outcome \in {"False", "raised"}))
        => Yielded(GitCommitEvent(FALSE))
    /\ pc = "complete" => stream[Len(stream)].type = "complete"

no_run_active == \A r \in Requests : runs[r].pc # "active"

\* C12: every exit path releases the workspace scope, so that once no run is
\* active the process working directory is the one in effect before any run
\* began, also when runs overlapped.
C12_WorkingDirectoryRestored ==
    (pc = "ws" /\ no_run_active) => cwd = BaseDir

\* C13: from the moment a run enters its project directory until it leaves,
\* every tool invocation of the run works in that run's own project
\* directory, even while another run is active.
C13_ToolsSeeOwnProjectDirectory ==
    \A r \in Requests :
        runs[r].workspaces \subseteq {project_dir(runs[r].project_id)}

\* C14: a run for project P starts from the team state last saved for P or
\* from a fresh state, and P's artifact never holds state produced by a run
\* of another project.
C14_TeamStatePerProject ==
    /\ \A r \in Requests :
        runs[r].pc # "idle" =>
            \A i \in DOMAIN runs[r].started_from.message_thread :
                runs[r].started_from.message_thread[i] = runs[r].project_id
    /\ \A p \in Projects :
        state_file[p].exists =>
            \A i \in DOMAIN json_load(state_file[p].text).message_thread :
                json_load(state_file[p].text).message_thread[i] = p

\* A message and the interaction records it holds, as items a consumer has
\* or lacks: <<id, 0>> is the message, <<id, k>> its k-th record.
Items(messages) ==
    UNION {{<<messages[i].id, k>> : k \in 0..messages[i].records} :
            i \in 1..Len(messages)}

\* C18: a consumer that reconnects asking for what came after the last id it
\* knows receives exactly what was stored since, nothing missing and nothing
\* repeated, also for the response in progress and for a session of any size.
C18_ReconnectReturnsExactlyTheNew ==
    [][(consumer = "disconnected" /\ consumer' = "replied")
        => Items(reply') = Items(rows) \ Items(mark.rows)]_vars

\* C21: no failure of the state store reaches its caller: a load of a
\* missing, unreadable or unparseable artifact returns False without raising
\* and leaves the team's state as it was, and a failing save raises nothing
\* and leaves the team's state as it was.
C21_PersistenceFailuresSwallowed ==
    /\ store_call.raised = "none"
    /\ (store_call.op = "load" /\ ~store_call.returned) =>
            team_state = store_call.before
    /\ store_call.op = "save" => team_state = store_call.before

\* a load met an artifact cut short by a failed save and returned False
C21_Witness ==
    /\ store_call.op = "load"
    /\ store_call.fault = "none"
    /\ state_file[store_call.project_id].exists
    /\ json_load(state_file[store_call.project_id].text) = JSONDecodeError
    /\ ~store_call.returned
    /\ team_state # FreshTeam

C23_CancelledRunPersistsRecords ==
    pc = "cancelled" => assistant_message.metadata = agent_interactions

\* C24: on an open stream, once more than 15 seconds have passed without a
\* real event, the last frame sent is a keep-alive frame, whether or not a
\* real event follows.
C24_KeepAliveWhenIdle ==
    (sse.open /\ sse.now - sse.last_heartbeat > KeepAliveSeconds)
        => /\ sse.frames # <<>>
           /\ sse.frames[Len(sse.frames)] = ": keep-alive"

C26_UnavailableSurfacedOnce ==
    /\ [](pc = "unavailable" =>
            /\ Cardinality({i \in DOMAIN stream : stream[i].type = "error"}) = 1
            /\ stream[Len(stream)].type = "error"
            /\ history = <<>>
            /\ agent_interactions = <<>>
            /\ checkpoint_calls = {}
            /\ assistant_message = NoMessage
            /\ ~agent_state_saved
            /\ git = NoCommit)
    /\ [][pc # "unavailable"]_vars

C26_Witness ==
    /\ pc = "unavailable"
    /\ Yielded(Event("error", [message |-> "ValueError"]))

\* the selector finds a target in the text the last edit was applied to
Matched ==
    target_match(patch.before, parse_selector(patch.request.element_selector),
                 <<>>, 1).found

\* C27: an edit is reported as not matched exactly when no element satisfies
\* the selector, and then the text is returned unchanged without an error;
\* when an element satisfies the selector the edit is reported as matched,
\* also when it leaves the text identical.
C27_MatchedIffElementSatisfies ==
    patch.calls > 0 =>
        /\ patch.result.success <=> Matched
        /\ ~Matched => (patch.file = patch.before /\ patch.result.raised = "none")

\* <div className="card dark">
ScenarioD_Input ==
    <<"<", "d", "i", "v", " ", "c", "l", "a", "s", "s", "N", "a", "m", "e",
      "=", "\"", "c", "a", "r", "d", " ", "d", "a", "r", "k", "\"",
      ">">>

\* selector div.card, StyleDelta {"background-color": "#111"}
ScenarioD_Request ==
    [element_selector |-> <<"d", "i", "v", ".", "c", "a", "r", "d">>,
     style_changes |->
        <<[prop |-> <<"b", "a", "c", "k", "g", "r", "o", "u", "n", "d", "-", "c", "o", "l",
                      "o", "r">>,
           val |-> <<"#", "1", "1", "1">>]>>,
     has_class_name |-> FALSE,
     class_name |-> <<>>]

ScenarioD == patch.before = ScenarioD_Input /\ patch.request = ScenarioD_Request

\* C28 as stated: the StyleDelta {"background-color": "#111"} with selector
\* div.card turns <div className="card dark"> into
\* <div className="card dark" style={{backgroundColor: '#111'}}>.
C28_StyleAfterClassName ==
    ScenarioD =>
        patch.file =
            <<"<", "d", "i", "v", " ", "c", "l", "a", "s", "s", "N", "a", "m", "e",
              "=", "\"", "c", "a", "r", "d", " ", "d", "a", "r", "k",
              "\"", " ", "s", "t", "y", "l", "e", "=", "{", "{", "b",
              "a", "c", "k", "g", "r", "o", "u", "n", "d", "C", "o",
              "l", "o", "r", ":", " ", "'", "#", "1", "1", "1", "'",
              "}", "}", ">">>

\* C28 amended: the StyleDelta {"background-color": "#111"} with selector
\* div.card turns <div className="card dark"> into
\* <div style={{backgroundColor: '#111'}} className="card dark">: the new
\* style attribute comes directly after the tag name.
C28_StyleAfterTagName ==
    ScenarioD =>
        patch.file =
            <<"<", "d", "i", "v", " ", "s", "t", "y", "l", "e", "=", "{", "{", "b",
              "a", "c", "k", "g", "r", "o", "u", "n", "d", "C", "o",
              "l", "o", "r", ":", " ", "'", "#", "1", "1", "1", "'",
              "}", "}", " ", "c", "l", "a", "s", "s", "N", "a", "m",
              "e", "=", "\"", "c", "a", "r", "d", " ", "d", "a", "r",
              "k", "\"", ">">>

C28_Witness == ScenarioD /\ patch.result.success

\* C29: applying the same StyleDelta with the same selector a second time
\* leaves the text as it was after the first time.
C29_StyleDeltaIdempotent ==
    [][(/\ patch.calls >= 1
        /\ patch'.request = patch.request
        /\ ~patch.request.has_class_name)
            => patch'.file = patch.file]_vars

Spawned ==
    /\ terminal.calls > 0
    /\ terminal.result.text[1] \notin {"COMMAND BLOCKED", "BACKGROUND COMMAND BLOCKED"}
    /\ terminal.process.error = "none"

C33_CheckpointPersistsLog ==
    [][checkpoint_calls' # checkpoint_calls
        => /\ assistant_message'.metadata = agent_interactions'
           /\ agent_state_saved']_vars

IsPrefix(s, t) == Len(s) <= Len(t) /\ SubSeq(t, 1, Len(s)) = s

\* C34: the interaction log only grows at its end, by the records of the
\* newest message of the run; the log stored with the assistant message is
\* always a prefix of the log in memory, and every stored log is a prefix
\* of the log stored after it.
C34_AppendOnlyInOrder ==
    /\ [](IsPrefix(assistant_message.metadata, agent_interactions))
    /\ [][/\ IsPrefix(agent_interactions, agent_interactions')
          /\ IsPrefix(assistant_message.metadata, assistant_message'.metadata)
          /\ history' # history =>
                agent_interactions' =
                    agent_interactions
                        \o interaction_records(history'[Len(history')])]_vars

\* a stored log of two checkpoints, with a newer record in memory only
C34_Witness ==
    /\ Cardinality(checkpoint_calls) >= 2
    /\ Len(assistant_message.metadata) >= 3
    /\ Len(agent_interactions) > Len(assistant_message.metadata)

\* C39: a run has at most one assistant message at every moment: none
\* until the first checkpoint that succeeds or the end of the run creates
\* it, the same one afterwards; when complete is yielded there is exactly
\* one, its content is the content of the last message of the run, and its
\* stored log is the whole log in memory.
C39_OneAssistantMessage ==
    /\ assistant_message.inserted <= 1
    /\ assistant_message.inserted = 0 <=> assistant_message = NoMessage
    /\ pc = "complete" =>
        /\ assistant_message.inserted = 1
        /\ assistant_message.content = "final"
        /\ assistant_message.response_content = history[Len(history)].content
        /\ assistant_message.metadata = agent_interactions
        /\ stream[Len(stream)] = Event("complete", [message |-> "final"])

\* a run whose message was created by a checkpoint, updated by a later
\* checkpoint and completed with a final text that mentions TERMINATE
C39_Witness ==
    /\ pc = "complete"
    /\ Cardinality(checkpoint_calls) >= 2
    /\ agent_state_saved
    /\ "TERMINATE" \in assistant_message.response_content
    /\ Len(assistant_message.metadata) >= 3

TerminalEvents == {"complete", "error"}

EventsOfType(type) == {i \in DOMAIN stream : stream[i].type = type}

\* C38: a stream has at most one complete or error event, which is its last
\* event, and nothing is yielded after it; a stream that the request has
\* ended ends with one; when the session was found the first event is
\* start; there is at most one git_commit event, and it comes after every
\* agent_interaction event (and so, with complete the last event, before
\* complete).
C38_OneTerminalEventLast ==
    /\ [](/\ \A i \in DOMAIN stream :
                stream[i].type \in TerminalEvents => i = Len(stream)
          /\ pc \in {"complete", "error", "unavailable", "rejected"} =>
                (stream # <<>> /\ stream[Len(stream)].type \in TerminalEvents)
          /\ pc = "complete" <=> EventsOfType("complete") # {}
          /\ (stream # <<>> /\ pc # "rejected") => stream[1].type = "start"
          /\ Cardinality(EventsOfType("git_commit")) <= 1
          /\ \A i \in EventsOfType("git_commit"), j \in EventsOfType("agent_interaction") :
                j < i)
    /\ [][(stream # <<>> /\ stream[Len(stream)].type \in TerminalEvents)
            => stream' = stream]_vars

\* a completed stream: start, interactions, a git_commit event, complete
C38_Witness ==
    /\ pc = "complete"
    /\ EventsOfType("agent_interaction") # {}
    /\ EventsOfType("git_commit") # {}
    /\ stream[Len(stream)].type = "complete"

\* the text before the last edit, the parsed selector of the edit, and the
\* first index at which the text after the edit differs from it
Before == patch.before

Selector == parse_selector(patch.request.element_selector)

FirstDifference ==
    CHOOSE d \in 1..(Len(patch.before) + 1) :
        /\ d > Len(patch.before) \/ d > Len(patch.file)
                \/ patch.before[d] # patch.file[d]
        /\ \A k \in 1..(d - 1) :
                k <= Len(patch.file) /\ patch.before[k] = patch.file[k]

\* an opening tag whose name is the selector's tag name starts at i: the tag
\* name is followed by whitespace, ">" or "/"
OpeningTag(i) ==
    /\ starts_with(Before, i, <<"<">> \o Selector.tag_name)
    /\ i + Len(Selector.tag_name) + 1 <= Len(Before)
    /\ Before[i + Len(Selector.tag_name) + 1] \in Whitespace \cup {">", "/"}

TagEnd(i) == index_of(Before, i, {">"})

\* the tag that starts at i has an attribute that starts after whitespace
\* and matches the regex
HasAttribute(i, regex) ==
    \E k \in (i + 1)..TagEnd(i) :
        /\ Before[k - 1] \in Whitespace
        /\ re_match(regex, SubSeq(Before, 1, TagEnd(i)), k).start # 0

SatisfiesFilter(i) ==
    IF Selector.class_filter # <<>>
        THEN \E k \in (i + 1)..TagEnd(i) :
                /\ Before[k - 1] \in Whitespace
                /\ Selector.class_filter \in
                    split(re_match([name |-> "class_filter"],
                                   SubSeq(Before, 1, TagEnd(i)), k).group)
    ELSE IF Selector.id_filter # <<>>
        THEN HasAttribute(i, [name |-> "id", id |-> Selector.id_filter])
    ELSE TRUE

Candidates ==
    {i \in DOMAIN Before : OpeningTag(i) /\ TagEnd(i) > 0 /\ SatisfiesFilter(i)}

\* C35: an edit changes the first opening tag whose name is the selector's
\* tag name and that passes the filter (the class filter is one of the
\* whitespace-separated tokens of the class value; the id attribute equals
\* the id filter; no filter: the first such tag); without such a tag the
\* text stays as it is.  A tag whose name only begins with the tag name is
\* no candidate.
C35_FirstCandidateIsEdited ==
    (patch.calls > 0 /\ patch.result.raised = "none") =>
        IF Candidates = {} THEN patch.file = patch.before
        ELSE patch.result.success =>
                LET first == CHOOSE i \in Candidates : \A j \in Candidates : i <= j
                    rest == Len(Before) - TagEnd(first)
                IN /\ first <= FirstDifference
                   /\ Len(patch.file) >= first + rest
                   /\ SubSeq(patch.file, Len(patch.file) - rest + 1, Len(patch.file))
                        = SubSeq(Before, TagEnd(first) + 1, Len(Before))

RECURSIVE style_pairs(_)
\* the key: value pairs of the text of an object literal, in order, each
\* value as it is written
style_pairs(text) ==
    LET trim(t) == SelectSeq(t, LAMBDA c : c \notin Whitespace)
        pair(item, colon) ==
            [prop |-> trim(SubSeq(item, 1, colon - 1)),
             val |-> trim(SubSeq(item, colon + 1, Len(item)))]
        items(comma) ==
            IF comma = 0 THEN <<pair(text, index_of(text, 1, {":"}))>>
            ELSE <<pair(SubSeq(text, 1, comma - 1),
                        index_of(SubSeq(text, 1, comma - 1), 1, {":"}))>>
                    \o style_pairs(SubSeq(text, comma + 1, Len(text)))
    IN IF trim(text) = <<>> THEN <<>> ELSE items(index_of(text, 1, {","}))

\* the tag the last edit was applied to, before and after the edit
EditedTag == target_match(Before, Selector, <<>>, 1)

\* the style attribute of the tag that starts at from: the tag reaches to
\* the next "<" of the text
StyleOf(text, from) ==
    LET next == index_of(text, from + 1, {"<"})
    IN re_search([name |-> "style"],
                 SubSeq(text, from, IF next = 0 THEN Len(text) ELSE next - 1))

\* C36: after a style edit of a tag that has a style attribute, the pairs of
\* the attribute are the pairs it had, in their order, with the value of
\* every key of the style changes replaced in place, followed by the keys
\* of the style changes that it did not have.
C36_StyleMergeKeepsPairs ==
    (/\ patch.calls > 0
     /\ patch.request.style_changes # <<>>
     /\ ~patch.request.has_class_name
     /\ EditedTag.found
     /\ StyleOf(Before, EditedTag.tag_start).start # 0)
    => style_pairs(StyleOf(patch.file, EditedTag.tag_start).group)
        = dict_update(style_pairs(StyleOf(Before, EditedTag.tag_start).group),
                      [n \in DOMAIN patch.request.style_changes |->
                        [prop |-> to_camel_case(patch.request.style_changes[n].prop),
                         val |-> <<"'">> \o patch.request.style_changes[n].val
                                    \o <<"'">>]])

\* C37: after a class edit the matched tag has the new class attribute in
\* place of the whole class attribute it had, or, when it had none,
\* directly after its tag name, whatever the form of the selector.
C37_ClassReplacedOrInserted ==
    (/\ patch.calls > 0
     /\ patch.request.has_class_name
     /\ patch.request.style_changes = <<>>
     /\ EditedTag.found)
    => LET tag_content == SubSeq(Before, EditedTag.tag_start, EditedTag.tag_full_end)
           existing == re_search([name |-> "classname"], tag_content)
           attribute == <<"c", "l", "a", "s", "s", "N", "a", "m", "e", "=", "\"">>
                            \o patch.request.class_name \o <<"\"">>
           after_name == EditedTag.tag_start + Len(Selector.tag_name)
       IN patch.file =
            IF existing.start # 0
                THEN SubSeq(Before, 1, EditedTag.tag_start + existing.start - 2)
                        \o attribute
                        \o SubSeq(Before, EditedTag.tag_start + existing.end,
                                  Len(Before))
                ELSE SubSeq(Before, 1, after_name) \o <<" ">> \o attribute
                        \o SubSeq(Before, after_name + 1, Len(Before))

\* the run's loop is over: it ended with the TaskResult, with an exception
\* or with the consumer gone
loop_over == pc \notin {"idle", "running"}

C40_Alternation ==
    /\ pc = "done"
    /\ Len(history) = MaxMessages
    /\ ~MentionsTerminate(history)
    /\ \A i \in 4..(Len(history) - 1) :
            /\ history[i].type = "TextMessage"
            /\ history[i].source # history[i + 1].source

====
